---- MODULE Spec2Model ----
(***************************************************************************)
(* Model of the corenlp-golang client package: the annotator registry      *)
(* (ValidateAnnotators and the string/Annotator conversions), the          *)
(* length-prefixed response decoder (BytesUnmarshal), and the two client   *)
(* backends (Cmd and HttpClient) with their constructors, RunText and Run. *)
(*                                                                         *)
(* The repository holds two revisions of the backends:                     *)
(*   HttpClient : src/client/http.go      and src/unnamed/part_005         *)
(*   Cmd        : src/client/cmd.go       and src/unnamed/part_006         *)
(* Both revisions are modelled; a client records the file it is built      *)
(* from in its field "src".                                                *)
(*                                                                         *)
(* Go values are represented as follows.                                   *)
(*   string, []byte : a sequence of one-character strings / of byte values *)
(*   slice          : [isNil |-> BOOLEAN, elems |-> sequence]              *)
(*   Annotator      : [T |-> "Annotator", s |-> string]                    *)
(*   error          : a record with field "type" (the dynamic type) and    *)
(*                    field "ptr" (the identity of the error value)        *)
(***************************************************************************)
EXTENDS Integers, Sequences, FiniteSets, TLC

VARIABLES
    annIn,      \* SpecAnnotators: the []Annotator argument
    annErr,     \* SpecAnnotators: error returned by ValidateAnnotators
    annStrs,    \* SpecAnnotators: AnnotatorsToStrings(annIn)
    annBack,    \* SpecAnnotators: StringsToAnnotators(annStrs)
    strIn,      \* SpecAnnotators: the []string argument
    strAnns,    \* SpecAnnotators: StringsToAnnotators(strIn)
    strBack,    \* SpecAnnotators: AnnotatorsToStrings(strAnns)
    annPc,      \* SpecAnnotators: "input" before the calls, "done" after
    data,       \* SpecDecode: the buffer given to BytesUnmarshal
    tail,       \* SpecDecode: bytes appended to data for the second call
    decRes,     \* SpecDecode: outcome of BytesUnmarshal(data, msg)
    decResTail, \* SpecDecode: outcome of BytesUnmarshal(data \o tail, msg)
    decMsg,     \* SpecDecode: the message given to BytesUnmarshal
    decPc,      \* SpecDecode: "input", then "one", then "done"
    client,     \* Spec: the constructed client (Cmd or HttpClient)
    cliPc,      \* Spec: "new", then "ready", or "panicked" by the constructor
    ctor,       \* Spec: the constructor call: function, file, arguments
    text,       \* Spec: the text of the last RunText call
    msg,        \* Spec: the message argument of the last RunText call
    ret,        \* Spec: the error the last RunText call returned
    panicked,   \* Spec: the last RunText call panicked instead of returning
    effects,    \* Spec: the external actions of the last RunText call, in order
    doc,        \* Spec: the caller's message after the last RunText call
    file,       \* SpecRun: the input file of the last Run call
    direct,     \* SpecRun: what RunText gives for the contents of that file
    entDoc,     \* SpecEntities: the document given to ExtractNamedEntities
    entRes,     \* SpecEntities: the map ExtractNamedEntities returned
    entPc,      \* SpecEntities: "input" before the call, "done" after
    conCmd,     \* SpecConcurrent: the Cmd the concurrent calls share
    conArray,   \* SpecConcurrent: the backing array of conCmd.Args
    conArray0,  \* SpecConcurrent: that array as the caller built it
    calls,      \* SpecConcurrent: each RunText call: position, locals, result
    dirs        \* SpecConcurrent: the temporary directory of each call

annVars == <<annIn, annErr, annStrs, annBack, strIn, strAnns, strBack, annPc>>

decVars == <<data, tail, decRes, decResTail, decMsg, decPc>>

cliVars ==
    <<client, cliPc, ctor, text, msg, ret, panicked, effects, doc, file, direct>>

entVars == <<entDoc, entRes, entPc>>

conVars == <<conCmd, conArray, conArray0, calls, dirs>>

vars == <<annVars, decVars, cliVars, entVars, conVars>>

----------------------------------------------------------------------------
(* Bounds *)

MaxName == 2        \* longest annotator name, in characters
MaxAnn  == 2        \* longest annotator list
MaxBuf  == 4        \* longest response buffer drawn from all byte strings
MaxTail == 1        \* longest run of bytes appended behind a buffer
MaxURL  == 2        \* longest server address, in characters
MaxStages == 2      \* longest stage list of a client
MaxExtra == 1       \* most extra Java arguments given to NewCmd
MaxBody == 3        \* longest response body / output artifact of RunText
MaxItems == 4       \* most tokens and sentence breaks of a document
MaxSpare == 13      \* largest spare capacity of the slice given to NewCmd

----------------------------------------------------------------------------
(* Sequences and slices *)

SeqsUpTo(S, n) == UNION {[1..k -> S] : k \in 0..n}

NilSlice == [isNil |-> TRUE, elems |-> <<>>]

MkSlice(s) == [isNil |-> FALSE, elems |-> s]

SliceLen(x) == Len(x.elems)

\* every slice over S with at most n entries, the nil slice included
SlicesUpTo(S, n) == {NilSlice} \cup {MkSlice(s) : s \in SeqsUpTo(S, n)}

----------------------------------------------------------------------------
(* Errors *)

NoError == [type |-> "nil", ptr |-> "nil"]

\* errors.New / fmt.Errorf without %w: a freshly allocated *errors.errorString
ErrorString(format, arg) ==
    [type |-> "*errors.errorString", ptr |-> "fresh", msg |-> format,
     index |-> arg]

\* the package-level sentinels of the client package
ErrEmptyInput == [type |-> "*errors.errorString", ptr |-> "ErrEmptyInput",
                  msg |-> "input text is empty", index |-> 0]

ErrNilMessage == [type |-> "*errors.errorString", ptr |-> "ErrNilMessage",
                  msg |-> "protobuf message cannot be nil", index |-> 0]

ErrNoAnnotators == [type |-> "*errors.errorString", ptr |-> "ErrNoAnnotators",
                    msg |-> "at least one annotator is required", index |-> 0]

\* errors.Is(err, target) for a sentinel: identity of the error value
ErrorsIs(err, target) == err.ptr = target.ptr

----------------------------------------------------------------------------
(* Annotator registry *)

NameChars == {"a", " ", "\t"}

\* the white space strings.TrimSpace removes, restricted to NameChars
WhiteSpace == {" ", "\t"}

Names == SeqsUpTo(NameChars, MaxName)

Annotator(s) == [T |-> "Annotator", s |-> s]

\* string(ann)
String(ann) == ann.s

RECURSIVE TrimLeft(_)
TrimLeft(s) ==
    IF s # <<>> /\ Head(s) \in WhiteSpace THEN TrimLeft(Tail(s)) ELSE s

RECURSIVE TrimRight(_)
TrimRight(s) ==
    IF s # <<>> /\ s[Len(s)] \in WhiteSpace
    THEN TrimRight(SubSeq(s, 1, Len(s) - 1)) ELSE s

TrimSpace(s) == TrimRight(TrimLeft(s))

\* the range loop of ValidateAnnotators: the first index (from 0) whose entry
\* trims to the empty string, or -1
RECURSIVE FirstBlank(_, _)
FirstBlank(elems, i) ==
    IF i > Len(elems) THEN -1
    ELSE IF TrimSpace(String(elems[i])) = <<>> THEN i - 1
    ELSE FirstBlank(elems, i + 1)

\* mutant: only the first entry is examined
ValidateAnnotatorsFirstOnly(annotators) ==
    IF SliceLen(annotators) = 0
    THEN ErrorString("at least one annotator is required", 0)
    ELSE IF TrimSpace(String(annotators.elems[1])) = <<>>
    THEN ErrorString("annotator at index %d is empty or whitespace", 0)
    ELSE NoError

ValidateAnnotators(annotators) ==
    IF SliceLen(annotators) = 0
    THEN ErrorString("at least one annotator is required", 0)
    ELSE IF FirstBlank(annotators.elems, 1) >= 0
    THEN ErrorString("annotator at index %d is empty or whitespace",
                     FirstBlank(annotators.elems, 1))
    ELSE NoError

\* mutant: the result is allocated with len(annotators) zero entries and the
\* converted entries are appended after them
AnnotatorsToStringsAppend(annotators) ==
    MkSlice([i \in 1..SliceLen(annotators) |-> <<>>] \o
            [i \in 1..SliceLen(annotators) |-> String(annotators.elems[i])])

AnnotatorsToStrings(annotators) ==
    MkSlice([i \in 1..SliceLen(annotators) |-> String(annotators.elems[i])])

StringsToAnnotators(annotators) ==
    MkSlice([i \in 1..SliceLen(annotators) |-> Annotator(annotators.elems[i])])

\* the annotator constants the predefined combinations are made of
AnnotatorTokenize == Annotator(<<"tokenize">>)

AnnotatorSSplit == Annotator(<<"ssplit">>)

AnnotatorPOS == Annotator(<<"pos">>)

AnnotatorLemma == Annotator(<<"lemma">>)

AnnotatorNER == Annotator(<<"ner">>)

AnnotatorEntityMentions == Annotator(<<"entitymentions">>)

AnnotatorParse == Annotator(<<"parse">>)

AnnotatorDepparse == Annotator(<<"depparse">>)

AnnotatorCoref == Annotator(<<"coref">>)

AnnotatorNatlog == Annotator(<<"natlog">>)

AnnotatorOpenie == Annotator(<<"openie">>)

\* the predefined combinations
BasicAnnotators ==
    MkSlice(<<AnnotatorTokenize, AnnotatorSSplit, AnnotatorPOS,
              AnnotatorLemma>>)

SyntaxAnnotators ==
    MkSlice(<<AnnotatorTokenize, AnnotatorSSplit, AnnotatorPOS,
              AnnotatorLemma, AnnotatorParse, AnnotatorDepparse>>)

NERAnnotators ==
    MkSlice(<<AnnotatorTokenize, AnnotatorSSplit, AnnotatorPOS,
              AnnotatorLemma, AnnotatorNER, AnnotatorEntityMentions>>)

\* mutant: coref is listed before the parse it requires
SemanticAnnotatorsCorefEarly ==
    MkSlice(<<AnnotatorTokenize, AnnotatorSSplit, AnnotatorPOS,
              AnnotatorLemma, AnnotatorNER, AnnotatorCoref, AnnotatorParse,
              AnnotatorDepparse>>)

SemanticAnnotators ==
    MkSlice(<<AnnotatorTokenize, AnnotatorSSplit, AnnotatorPOS,
              AnnotatorLemma, AnnotatorNER, AnnotatorParse,
              AnnotatorDepparse, AnnotatorCoref>>)

RelationExtractionAnnotators ==
    MkSlice(<<AnnotatorTokenize, AnnotatorSSplit, AnnotatorPOS,
              AnnotatorLemma, AnnotatorNER, AnnotatorParse,
              AnnotatorDepparse, AnnotatorNatlog, AnnotatorOpenie>>)

PredefinedCombinations ==
    {BasicAnnotators, SyntaxAnnotators, NERAnnotators, SemanticAnnotators,
     RelationExtractionAnnotators}

\* the "Requires:" line of each annotator constant's documentation (the
\* README's Annotator Reference lists the same dependencies)
Requires(name) ==
    LET base == {<<"tokenize">>, <<"ssplit">>}
        tagged == base \cup {<<"pos">>}
        lemmatized == tagged \cup {<<"lemma">>}
        recognized == lemmatized \cup {<<"ner">>}
    IN CASE name = <<"ssplit">> -> {<<"tokenize">>}
         [] name = <<"pos">> -> base
         [] name = <<"lemma">> -> tagged
         [] name = <<"ner">> -> lemmatized
         [] name \in {<<"regexner">>, <<"entitymentions">>} -> recognized
         [] name = <<"entitylink">> -> recognized \cup {<<"entitymentions">>}
         [] name \in {<<"parse">>, <<"depparse">>, <<"udfeats">>} -> tagged
         [] name \in {<<"coref">>, <<"dcoref">>, <<"mention">>, <<"relation">>} ->
                recognized \cup {<<"parse">>}
         [] name = <<"sentiment">> -> base \cup {<<"parse">>}
         [] name = <<"natlog">> -> lemmatized \cup {<<"depparse">>}
         [] name = <<"openie">> ->
                lemmatized \cup {<<"depparse">>, <<"natlog">>}
         [] name = <<"kbp">> -> recognized \cup {<<"parse">>, <<"coref">>}
         [] name \in {<<"quote">>, <<"tokensregex">>} -> base
         [] name = <<"quote.attribution">> ->
                recognized \cup {<<"depparse">>, <<"coref">>, <<"quote">>}
         [] OTHER -> {}

\* what the README lists for the predefined combinations, as stage names
README_BasicAnnotators ==
    << <<"tokenize">>, <<"ssplit">>, <<"pos">>, <<"lemma">> >>

README_SyntaxAnnotators ==
    README_BasicAnnotators \o << <<"parse">>, <<"depparse">> >>

README_NERAnnotators ==
    README_BasicAnnotators \o << <<"ner">>, <<"entitymentions">> >>

README_SemanticAnnotators ==
    << <<"tokenize">>, <<"ssplit">>, <<"pos">>, <<"lemma">>, <<"ner">>,
       <<"parse">>, <<"depparse">>, <<"coref">> >>

README_RelationExtractionAnnotators ==
    << <<"tokenize">>, <<"ssplit">>, <<"pos">>, <<"lemma">>, <<"depparse">>,
       <<"natlog">>, <<"openie">> >>

----------------------------------------------------------------------------
(* Binary response decoder *)

\* the byte values buffers are built from: 0, 1, 2 are one-byte lengths and
\* varint terminators, 8 is the tag of a varint field 1, 128 and 129 carry
\* the continuation bit
Bytes == {0, 1, 2, 8, 128, 129}

ContinuationBit == 128

\* binary.MaxVarintLen64: the widest varint protowire.ConsumeVarint accepts
MaxVarintLen == 10

\* protowire's negative lengths
errCodeTruncated == -1

errCodeFieldNumber == -2

errCodeOverflow == -3

\* Lengths are uint64 in the code.  They are only ever compared with the
\* length of a buffer, so the model keeps min(value, VarintCap).
VarintCap == 2097152

Min(a, b) == IF a < b THEN a ELSE b

\* protowire.ConsumeVarint, from byte i on, with the value v accumulated so
\* far and the weight w of the next 7-bit group
RECURSIVE ConsumeVarintFrom(_, _, _, _)
ConsumeVarintFrom(b, i, v, w) ==
    IF i > Len(b) THEN [v |-> 0, n |-> errCodeTruncated]
    ELSE IF i = MaxVarintLen
    THEN IF b[i] > 1 THEN [v |-> 0, n |-> errCodeOverflow]
         ELSE [v |-> Min(v + b[i] * w, VarintCap), n |-> i]
    ELSE IF b[i] < ContinuationBit
    THEN [v |-> Min(v + b[i] * w, VarintCap), n |-> i]
    ELSE ConsumeVarintFrom(b, i + 1,
                           Min(v + (b[i] - ContinuationBit) * w, VarintCap),
                           Min(w * ContinuationBit, VarintCap))

ConsumeVarint(b) == ConsumeVarintFrom(b, 1, 0, 1)

\* mutant: the length is compared with the whole buffer, varint included
ConsumeBytesWholeLen(b) ==
    LET r == ConsumeVarint(b) IN
    IF r.n < 0 THEN [v |-> <<>>, n |-> r.n]
    ELSE IF r.v > Len(b) THEN [v |-> <<>>, n |-> errCodeTruncated]
    ELSE [v |-> SubSeq(b, r.n + 1, Min(r.n + r.v, Len(b))), n |-> r.n + r.v]

\* mutant: everything behind the varint is taken as the record
ConsumeBytesRest(b) ==
    LET r == ConsumeVarint(b) IN
    IF r.n < 0 THEN [v |-> <<>>, n |-> r.n]
    ELSE IF r.v > Len(b) - r.n THEN [v |-> <<>>, n |-> errCodeTruncated]
    ELSE [v |-> SubSeq(b, r.n + 1, Len(b)), n |-> Len(b)]

\* mutant: bytes behind the announced record are an error
ConsumeBytesStrict(b) ==
    LET r == ConsumeVarint(b) IN
    IF r.n < 0 THEN [v |-> <<>>, n |-> r.n]
    ELSE IF r.v # Len(b) - r.n THEN [v |-> <<>>, n |-> errCodeTruncated]
    ELSE [v |-> SubSeq(b, r.n + 1, r.n + r.v), n |-> r.n + r.v]

\* protowire.ConsumeBytes: the length-prefixed bytes at the start of b
ConsumeBytes(b) ==
    LET r == ConsumeVarint(b) IN
    IF r.n < 0 THEN [v |-> <<>>, n |-> r.n]
    ELSE IF r.v > Len(b) - r.n THEN [v |-> <<>>, n |-> errCodeTruncated]
    ELSE [v |-> SubSeq(b, r.n + 1, r.n + r.v), n |-> r.n + r.v]

\* protowire.ParseError
ParseError(n) ==
    IF n = errCodeTruncated
    THEN [type |-> "*errors.errorString", ptr |-> "io.ErrUnexpectedEOF",
          msg |-> "unexpected EOF", index |-> 0]
    ELSE IF n = errCodeOverflow
    THEN [type |-> "*errors.errorString", ptr |-> "protowire.errOverflow",
          msg |-> "variable length integer overflow", index |-> 0]
    ELSE [type |-> "*errors.errorString", ptr |-> "protowire.errFieldNumber",
          msg |-> "invalid field number", index |-> 0]

\* The record format's deserializer, proto.Unmarshal, is outside the
\* repository.  It is modelled by the wire format it parses: a sequence of
\* fields, each a varint tag (field number >= 1, wire type in the low three
\* bits) followed by a varint (wire type 0) or by length-prefixed bytes
\* (wire type 2).
WireVarint == 0

WireBytes == 2

WireTypes == 8

RECURSIVE WireFormatOK(_)
WireFormatOK(b) ==
    IF b = <<>> THEN TRUE
    ELSE LET t == ConsumeVarint(b) IN
         IF t.n < 0 \/ t.v \div WireTypes < 1 THEN FALSE
         ELSE LET rest == SubSeq(b, t.n + 1, Len(b))
                  f == IF t.v % WireTypes = WireVarint THEN ConsumeVarint(rest)
                       ELSE IF t.v % WireTypes = WireBytes THEN ConsumeBytes(rest)
                       ELSE [n |-> errCodeFieldNumber]
              IN IF f.n < 0 THEN FALSE
                 ELSE WireFormatOK(SubSeq(rest, f.n + 1, Len(rest)))

errDecode == [type |-> "*errors.prefixError", ptr |-> "proto.errDecode",
              msg |-> "cannot parse invalid wire-format data", index |-> 0]

\* a protoreflect.ProtoMessage argument: the nil interface, or the caller's
\* message; "from" are the bytes it was last filled from
NilMsg == [isNil |-> TRUE, from |-> <<>>, set |-> FALSE]

EmptyDoc == [isNil |-> FALSE, from |-> <<>>, set |-> FALSE]

\* proto.Unmarshal(bs, msg): the message is reset and filled from bs; the
\* call panics on the nil interface (msg.ProtoReflect())
ProtoUnmarshal(bs, m) ==
    IF m.isNil
    THEN [err |-> NoError, doc |-> m, panicked |-> TRUE]
    ELSE IF WireFormatOK(bs)
    THEN [err |-> NoError, panicked |-> FALSE,
          doc |-> [isNil |-> FALSE, from |-> bs, set |-> TRUE]]
    ELSE [err |-> errDecode, panicked |-> FALSE,
          doc |-> [isNil |-> FALSE, from |-> bs, set |-> FALSE]]

\* what the caller of BytesUnmarshal can observe: the returned error (or the
\* panic), the message, and the bytes handed to proto.Unmarshal
\* (unmarshalled = FALSE when it was not called)
BytesUnmarshal(buf, m) ==
    LET c == ConsumeBytes(buf) IN
    IF c.n < 0
    THEN [err |-> ParseError(c.n), doc |-> m, panicked |-> FALSE,
          unmarshalled |-> FALSE, bs |-> <<>>]
    ELSE [err |-> ProtoUnmarshal(c.v, m).err,
          doc |-> ProtoUnmarshal(c.v, m).doc,
          panicked |-> ProtoUnmarshal(c.v, m).panicked,
          unmarshalled |-> TRUE, bs |-> c.v]

NotDecoded == [err |-> NoError, doc |-> EmptyDoc, panicked |-> FALSE,
               unmarshalled |-> FALSE, bs |-> <<>>]

----------------------------------------------------------------------------
(* Error values of the backends *)

\* fmt.Errorf("...: %w", err)
WrapError(format, err) ==
    [type |-> "*fmt.wrapError", ptr |-> "fresh", msg |-> format, index |-> 0,
     Err |-> err]

\* &ServerError{URL, StatusCode, Message}
ServerError(url, code, message) ==
    [type |-> "*client.ServerError", ptr |-> "fresh", msg |-> "server error",
     index |-> 0, URL |-> url, StatusCode |-> code, Message |-> message]

\* &CommandError{Command, Stderr, Err}
CommandError(command, stderr, err) ==
    [type |-> "*client.CommandError", ptr |-> "fresh", msg |-> "command error",
     index |-> 0, Command |-> command, Stderr |-> stderr, Err |-> err]

\* the error url.Parse reports inside http.NewRequestWithContext
urlEscapeError ==
    [type |-> "*url.Error", ptr |-> "fresh", msg |-> "invalid URL escape",
     index |-> 0]

\* what can make http.Client.Do fail without a response
TransportCauses ==
    {[type |-> "*net.OpError", ptr |-> "fresh", msg |-> "connection refused",
      index |-> 0],
     [type |-> "*errors.errorString", ptr |-> "context.Canceled",
      msg |-> "context canceled", index |-> 0]}

\* the *url.Error http.Client.Do returns for a cause
DoError(cause) ==
    [type |-> "*url.Error", ptr |-> "fresh", msg |-> cause.msg, index |-> 0,
     Err |-> cause]

\* the error of a failed file system call
PathError(reason) ==
    [type |-> "*fs.PathError", ptr |-> "fresh", msg |-> reason, index |-> 0]

\* what can make exec.Cmd.Run fail: the executable cannot be started, it
\* exits non-zero, or the context is cancelled and the process is killed
\* (Run then reports the kill signal or the context's error)
RunFailures ==
    {[type |-> "*exec.Error", ptr |-> "fresh",
      msg |-> "executable file not found", index |-> 0],
     [type |-> "*exec.ExitError", ptr |-> "fresh", msg |-> "exit status 1",
      index |-> 0],
     [type |-> "*exec.ExitError", ptr |-> "fresh", msg |-> "signal: killed",
      index |-> 0],
     [type |-> "*errors.errorString", ptr |-> "context.Canceled",
      msg |-> "context canceled", index |-> 0]}

\* err.Error(), as a string
ErrorText(err) == <<err.msg>>

\* (*ServerError).Error(): the status part is printed for a positive status
ServerError_Error(e) ==
    IF e.StatusCode > 0
    THEN <<"server error [">> \o e.URL \o <<"] (status ">>
             \o <<ToString(e.StatusCode)>> \o <<"): ">> \o e.Message
    ELSE <<"server error [">> \o e.URL \o <<"]: ">> \o e.Message

\* the error types whose Unwrap method returns the field Err; ServerError
\* has neither the field nor the method
UnwrapTypes ==
    {"*client.ParseError", "*client.CommandError", "*fmt.wrapError",
     "*url.Error"}

\* errors.Unwrap(err): nil for an error without an Unwrap method
Unwrap(err) ==
    IF err.type \in UnwrapTypes /\ "Err" \in DOMAIN err THEN err.Err
    ELSE NoError

----------------------------------------------------------------------------
(* Strings of the backends.  A Go string is a sequence of pieces; the server
   address, which the code inspects character by character, is a sequence of
   characters. *)

\* strings.Join(elems, sep)
RECURSIVE Join(_, _)
Join(elems, sep) ==
    IF elems = <<>> THEN <<>>
    ELSE IF Len(elems) = 1 THEN elems[1]
    ELSE elems[1] \o <<sep>> \o Join(Tail(elems), sep)

\* url.QueryEscape on one piece
EscapePiece(c) ==
    CASE c = "{" -> "%7B"
      [] c = "," -> "%2C"
      [] c = " " -> "+"
      [] c = "\"annotators\":\"" -> "%22annotators%22%3A%22"
      [] c = "\"," -> "%22%2C"
      [] c = "\"outputFormat\":\"serialized\",\"serializer\":\"edu.stanford.nlp.pipeline.ProtobufAnnotationSerializer\"}"
           -> "%22outputFormat%22%3A%22serialized%22%2C%22serializer%22%3A%22edu.stanford.nlp.pipeline.ProtobufAnnotationSerializer%22%7D"
      [] OTHER -> c

QueryEscape(str) == [i \in 1..Len(str) |-> EscapePiece(str[i])]

\* url.Parse inside http.NewRequestWithContext: a "%" that no two hex digits
\* follow is an invalid escape
URLParseOK(u) == \A i \in 1..Len(u) : u[i] # "%"

DefaultURL ==
    <<"h", "t", "t", "p", ":", "/", "/", "1", "2", "7", ".", "0", ".", "0",
      ".", "1", ":", "9", "0", "0", "0">>

----------------------------------------------------------------------------
(* Clients *)

NoCall == [fn |-> "none", src |-> "none", annotators |-> NilSlice,
           args |-> NilSlice]

NoClient ==
    [backend |-> "none", src |-> "none", Annotators |-> NilSlice,
     URL |-> <<>>, HTTPClient |-> "none",
     ClassPath |-> <<>>, Class |-> <<>>, javaCmd |-> <<>>, Args |-> NilSlice]

\* src/client/http.go
NewHttpClient_http_go(annotators, args) ==
    IF ~args.isNil /\ SliceLen(args) = 0
    THEN [panicked |-> TRUE, client |-> NoClient]       \* args[0]
    ELSE LET curl == IF ~args.isNil THEN args.elems[1] ELSE DefaultURL IN
         IF Len(curl) - 2 < 0
         THEN [panicked |-> TRUE, client |-> NoClient]  \* curl[len(curl)-2:]
         ELSE [panicked |-> FALSE,
               client |->
                 [NoClient EXCEPT
                    !.backend = "HttpClient", !.src = "http.go",
                    !.Annotators = annotators,
                    !.URL = IF SubSeq(curl, Len(curl) - 2 + 1, Len(curl)) # <<"/">>
                            THEN curl \o <<"/">> ELSE curl]]

\* src/unnamed/part_005
NewHttpClient_part_005(annotators, args) ==
    LET curl == IF SliceLen(args) > 0 THEN args.elems[1] ELSE DefaultURL IN
    [panicked |-> FALSE,
     client |-> [NoClient EXCEPT
                   !.backend = "HttpClient", !.src = "part_005",
                   !.Annotators = annotators,
                   !.URL = IF Len(curl) > 0
                              /\ SubSeq(curl, Len(curl) - 1 + 1, Len(curl)) # <<"/">>
                           THEN curl \o <<"/">> ELSE curl,
                   !.HTTPClient = "DefaultHTTPClient"]]

\* args[k:] of a slice with at least k entries
SliceFrom(args, k) == MkSlice(SubSeq(args.elems, k + 1, SliceLen(args)))

\* NewCmd of src/client/cmd.go and of src/unnamed/part_006 (src names the
\* file): the first three arguments, when given, replace the defaults
NewCmd(src, annotators, args) ==
    LET a1 == IF SliceLen(args) > 0 THEN SliceFrom(args, 1) ELSE args
        a2 == IF SliceLen(a1) > 0 THEN SliceFrom(a1, 1) ELSE a1
        a3 == IF SliceLen(a2) > 0 THEN SliceFrom(a2, 1) ELSE a2
    IN [panicked |-> FALSE,
        client |->
          [NoClient EXCEPT
             !.backend = "Cmd", !.src = src,
             !.Annotators = annotators,
             !.ClassPath = IF SliceLen(args) > 0 THEN args.elems[1] ELSE <<"*">>,
             !.Class = IF SliceLen(a1) > 0 THEN a1.elems[1]
                       ELSE <<"edu.stanford.nlp.pipeline.StanfordCoreNLP">>,
             !.javaCmd = IF SliceLen(a2) > 0 THEN a2.elems[1] ELSE <<"java">>,
             !.Args = a3]]

----------------------------------------------------------------------------
(* RunText.  Each operator gives what one call does for the outcomes "env"
   of its external actions: the returned error (or the panic), the external
   actions in order, and the caller's message afterwards. *)

Outcome(err, pan, evs, m) ==
    [ret |-> err, panicked |-> pan, effects |-> evs, doc |-> m]

\* the request sent, the error Do returned (NoError when a response
\* arrived), and the status of the response (0: no response)
EvDo(via, url, body, header, err, status) ==
    [op |-> "http.Client.Do", via |-> via, method |-> "POST", url |-> url,
     body |-> body, header |-> header, err |-> err, status |-> status]

EvReadAll == [op |-> "ReadAll"]

EvClose == [op |-> "Body.Close"]

EvUnmarshal(bs) == [op |-> "proto.Unmarshal", bs |-> bs]

EvMkdirTemp(dir, ok) == [op |-> "os.MkdirTemp", dir |-> dir, ok |-> ok]

EvWriteFile(path, body, ok) ==
    [op |-> "os.WriteFile", path |-> path, body |-> body, ok |-> ok]

\* the command run, what the subprocess wrote to its standard output and
\* standard error, and the error Run returned (NoError: exit status 0)
EvExec(name, args, started, stdout, stderr, err) ==
    [op |-> "exec.Cmd.Run", name |-> name, args |-> args, started |-> started,
     stdout |-> stdout, stderr |-> stderr, err |-> err]

EvReadFile(path, ok) == [op |-> "os.ReadFile", path |-> path, ok |-> ok]

EvRemoveAll(dir) == [op |-> "os.RemoveAll", dir |-> dir]

\* the events of BytesUnmarshal
DecodeEvents(u) == IF u.unmarshalled THEN <<EvUnmarshal(u.bs)>> ELSE <<>>

FixedProperties ==
    "\"outputFormat\":\"serialized\",\"serializer\":\"edu.stanford.nlp.pipeline.ProtobufAnnotationSerializer\"}"

\* the request URL both revisions of HttpClient.RunText build
RequestURL(h) ==
    LET str == IF ~h.Annotators.isNil
               THEN <<"\"annotators\":\"">> \o Join(h.Annotators.elems, ",")
                        \o <<"\",">>
               ELSE <<>>
    IN h.URL \o <<"?properties=">>
             \o QueryEscape(<<"{">> \o str \o <<FixedProperties>>)

\* src/client/http.go
\* env: doErr (NoError when a response arrives), status, readOK, body
HttpClient_RunText_http_go(h, txt, m, env) ==
    LET curl == RequestURL(h)
        do == EvDo("http.DefaultTransport", curl, txt, <<>>,
                   IF env.doErr # NoError THEN DoError(env.doErr) ELSE NoError,
                   env.status)
        u == BytesUnmarshal(env.body, m)
    IN IF ~URLParseOK(curl) THEN Outcome(urlEscapeError, FALSE, <<>>, m)
       ELSE IF env.doErr # NoError
       THEN Outcome(DoError(env.doErr), FALSE, <<do>>, m)
       ELSE IF env.status < 200 \/ env.status >= 300
       THEN Outcome(ErrorString("HTTP status %s\n", env.status), FALSE, <<do>>, m)
       ELSE IF ~env.readOK
       THEN Outcome(PathError("read: connection reset"), FALSE,
                    <<do, EvReadAll, EvClose>>, m)
       ELSE Outcome(u.err, u.panicked,
                    <<do, EvReadAll, EvClose>> \o DecodeEvents(u), u.doc)

\* mutant: a request that fails without a response is sent a second time
HttpClient_RunText_part_005_Retry(h, txt, m, env) ==
    LET curl == RequestURL(h)
        via == IF h.HTTPClient = "none" THEN "DefaultHTTPClient" ELSE h.HTTPClient
        do == EvDo(via, curl, txt, <<"Content-Type: text/plain">>,
                   IF env.doErr # NoError THEN DoError(env.doErr) ELSE NoError,
                   env.status)
        u == BytesUnmarshal(env.body, m)
    IN IF Len(txt) = 0 THEN Outcome(ErrEmptyInput, FALSE, <<>>, m)
       ELSE IF m.isNil THEN Outcome(ErrNilMessage, FALSE, <<>>, m)
       ELSE IF ~URLParseOK(curl)
       THEN Outcome(WrapError("failed to create HTTP request", urlEscapeError),
                    FALSE, <<>>, m)
       ELSE IF env.doErr # NoError
       THEN Outcome(ServerError(h.URL, 0, ErrorText(DoError(env.doErr))),
                    FALSE, <<do, do>>, m)
       ELSE IF env.status < 200 \/ env.status >= 300
       THEN Outcome(ServerError(h.URL, env.status,
                                <<"HTTP status ", ToString(env.status)>>),
                    FALSE, <<do, EvClose>>, m)
       ELSE IF ~env.readOK
       THEN Outcome(WrapError("failed to read response body",
                              PathError("read: connection reset")),
                    FALSE, <<do, EvReadAll, EvClose>>, m)
       ELSE Outcome(u.err, u.panicked,
                    <<do, EvReadAll>> \o DecodeEvents(u) \o <<EvClose>>, u.doc)

\* src/unnamed/part_005
HttpClient_RunText_part_005(h, txt, m, env) ==
    LET curl == RequestURL(h)
        via == IF h.HTTPClient = "none" THEN "DefaultHTTPClient" ELSE h.HTTPClient
        do == EvDo(via, curl, txt, <<"Content-Type: text/plain">>,
                   IF env.doErr # NoError THEN DoError(env.doErr) ELSE NoError,
                   env.status)
        u == BytesUnmarshal(env.body, m)
    IN IF Len(txt) = 0 THEN Outcome(ErrEmptyInput, FALSE, <<>>, m)
       ELSE IF m.isNil THEN Outcome(ErrNilMessage, FALSE, <<>>, m)
       ELSE IF ~URLParseOK(curl)
       THEN Outcome(WrapError("failed to create HTTP request", urlEscapeError),
                    FALSE, <<>>, m)
       ELSE IF env.doErr # NoError
       THEN Outcome(ServerError(h.URL, 0, ErrorText(DoError(env.doErr))),
                    FALSE, <<do>>, m)
       ELSE IF env.status < 200 \/ env.status >= 300
       THEN Outcome(ServerError(h.URL, env.status,
                                <<"HTTP status ", ToString(env.status)>>),
                    FALSE, <<do, EvClose>>, m)
       ELSE IF ~env.readOK
       THEN Outcome(WrapError("failed to read response body",
                              PathError("read: connection reset")),
                    FALSE, <<do, EvReadAll, EvClose>>, m)
       ELSE Outcome(u.err, u.panicked,
                    <<do, EvReadAll>> \o DecodeEvents(u) \o <<EvClose>>, u.doc)

\* filepath.Join(outputDir, "input.text")
InputPath(outputDir) == outputDir \o <<"/input.text">>

\* mutant: the stage flag is added for every non-nil stage list, as the
\* transport backend decides it
CmdArgsStagesNotNil(c, input, outputDir) ==
    c.Args.elems
      \o (IF c.ClassPath # <<>> THEN <<<<"-cp">>, c.ClassPath>> ELSE <<>>)
      \o <<c.Class>>
      \o (IF ~c.Annotators.isNil
          THEN <<<<"-annotators">>, Join(c.Annotators.elems, ",")>> ELSE <<>>)
      \o << <<"-file">>, input, <<"--outputDirectory">>, outputDir,
            <<"-outputFormat">>, <<"serialized">>, <<"-outputSerializer">>,
            <<"edu.stanford.nlp.pipeline.ProtobufAnnotationSerializer">> >>

\* the argument list both revisions of Cmd.RunText build
CmdArgs(c, input, outputDir) ==
    c.Args.elems
      \o (IF c.ClassPath # <<>> THEN <<<<"-cp">>, c.ClassPath>> ELSE <<>>)
      \o <<c.Class>>
      \o (IF SliceLen(c.Annotators) > 0
          THEN <<<<"-annotators">>, Join(c.Annotators.elems, ",")>> ELSE <<>>)
      \o << <<"-file">>, input, <<"--outputDirectory">>, outputDir,
            <<"-outputFormat">>, <<"serialized">>, <<"-outputSerializer">>,
            <<"edu.stanford.nlp.pipeline.ProtobufAnnotationSerializer">> >>

\* mutant: the directory is removed by a call at the end of RunText instead
\* of a deferred one, so the early returns leave it behind
Cmd_RunText_RemoveAtEnd(c, txt, m, env) ==
    LET input == InputPath(env.dir)
        mk == EvMkdirTemp(env.dir, TRUE)
        wr == EvWriteFile(input, txt, env.writeOK)
        ex == EvExec(c.javaCmd, CmdArgs(c, input, env.dir),
                     env.runErr.type # "*exec.Error", env.stdout, env.stderr,
                     env.runErr)
        rd == EvReadFile(input \o <<".ser.gz">>, env.readOK)
        rm == EvRemoveAll(env.dir)
        u == BytesUnmarshal(env.data, m)
    IN IF Len(txt) = 0 THEN Outcome(ErrEmptyInput, FALSE, <<>>, m)
       ELSE IF m.isNil THEN Outcome(ErrNilMessage, FALSE, <<>>, m)
       ELSE IF ~env.mkdirOK
       THEN Outcome(WrapError("failed to create temp directory",
                              PathError("mkdir: permission denied")),
                    FALSE, <<EvMkdirTemp(<<>>, FALSE)>>, m)
       ELSE IF ~env.writeOK
       THEN Outcome(WrapError("failed to write input file",
                              PathError("write: no space left on device")),
                    FALSE, <<mk, wr>>, m)
       ELSE IF env.runErr # NoError
       THEN Outcome(CommandError(c.javaCmd, env.stderr, env.runErr),
                    FALSE, <<mk, wr, ex>>, m)
       ELSE IF ~env.readOK
       THEN Outcome(WrapError("failed to read output file",
                              PathError("open: no such file or directory")),
                    FALSE, <<mk, wr, ex, rd>>, m)
       ELSE Outcome(u.err, u.panicked,
                    <<mk, wr, ex, rd>> \o DecodeEvents(u) \o <<rm>>, u.doc)

\* src/client/cmd.go
\* env: dir, mkdirOK, writeOK, runErr (NoError when the subprocess exits
\* with status 0), stdout, stderr, readOK, data
Cmd_RunText_cmd_go(c, txt, m, env) ==
    LET input == InputPath(env.dir)
        mk == EvMkdirTemp(env.dir, TRUE)
        wr == EvWriteFile(input, txt, env.writeOK)
        ex == EvExec(c.javaCmd, CmdArgs(c, input, env.dir),
                     env.runErr.type # "*exec.Error", env.stdout, env.stderr,
                     env.runErr)
        rd == EvReadFile(input \o <<".ser.gz">>, env.readOK)
        rm == EvRemoveAll(env.dir)
        u == BytesUnmarshal(env.data, m)
    IN IF Len(txt) = 0 THEN Outcome(ErrEmptyInput, FALSE, <<>>, m)
       ELSE IF m.isNil THEN Outcome(ErrNilMessage, FALSE, <<>>, m)
       ELSE IF ~env.mkdirOK
       THEN Outcome(WrapError("failed to create temp directory",
                              PathError("mkdir: permission denied")),
                    FALSE, <<EvMkdirTemp(<<>>, FALSE)>>, m)
       ELSE IF ~env.writeOK
       THEN Outcome(WrapError("failed to write input file",
                              PathError("write: no space left on device")),
                    FALSE, <<mk, wr, rm>>, m)
       ELSE IF env.runErr # NoError
       THEN Outcome(CommandError(c.javaCmd, env.stderr, env.runErr),
                    FALSE, <<mk, wr, ex, rm>>, m)
       ELSE IF ~env.readOK
       THEN Outcome(WrapError("failed to read output file",
                              PathError("open: no such file or directory")),
                    FALSE, <<mk, wr, ex, rd, rm>>, m)
       ELSE Outcome(u.err, u.panicked,
                    <<mk, wr, ex, rd>> \o DecodeEvents(u) \o <<rm>>, u.doc)

\* mutant: the error of the run is dropped and the output is read anyway
Cmd_RunText_part_006_IgnoreRunError(c, txt, m, env) ==
    LET input == InputPath(env.dir)
        mk == EvMkdirTemp(env.dir, TRUE)
        wr == EvWriteFile(input, txt, env.writeOK)
        ex == EvExec(c.javaCmd, CmdArgs(c, input, env.dir),
                     env.runErr.type # "*exec.Error", env.stdout, env.stderr,
                     env.runErr)
        rd == EvReadFile(input \o <<".ser.gz">>, env.readOK)
        rm == EvRemoveAll(env.dir)
        u == BytesUnmarshal(env.data, m)
    IN IF ~env.mkdirOK
       THEN Outcome(PathError("mkdir: permission denied"), FALSE,
                    <<EvMkdirTemp(<<>>, FALSE)>>, m)
       ELSE IF ~env.writeOK
       THEN Outcome(PathError("write: no space left on device"), FALSE,
                    <<mk, wr, rm>>, m)
       ELSE IF ~env.readOK
       THEN Outcome(PathError("open: no such file or directory"), FALSE,
                    <<mk, wr, ex, rd, rm>>, m)
       ELSE Outcome(u.err, u.panicked,
                    <<mk, wr, ex, rd>> \o DecodeEvents(u) \o <<rm>>, u.doc)

\* src/unnamed/part_006
Cmd_RunText_part_006(c, txt, m, env) ==
    LET input == InputPath(env.dir)
        mk == EvMkdirTemp(env.dir, TRUE)
        wr == EvWriteFile(input, txt, env.writeOK)
        ex == EvExec(c.javaCmd, CmdArgs(c, input, env.dir),
                     env.runErr.type # "*exec.Error", env.stdout, env.stderr,
                     env.runErr)
        rd == EvReadFile(input \o <<".ser.gz">>, env.readOK)
        rm == EvRemoveAll(env.dir)
        u == BytesUnmarshal(env.data, m)
    IN IF ~env.mkdirOK
       THEN Outcome(PathError("mkdir: permission denied"), FALSE,
                    <<EvMkdirTemp(<<>>, FALSE)>>, m)
       ELSE IF ~env.writeOK
       THEN Outcome(PathError("write: no space left on device"), FALSE,
                    <<mk, wr, rm>>, m)
       ELSE IF env.runErr # NoError
       THEN Outcome([ErrorString("%s: %s", 0) EXCEPT
                        !.msg = env.runErr.msg] @@ [Text |-> env.stderr],
                    FALSE, <<mk, wr, ex, rm>>, m)
       ELSE IF ~env.readOK
       THEN Outcome(PathError("open: no such file or directory"), FALSE,
                    <<mk, wr, ex, rd, rm>>, m)
       ELSE Outcome(u.err, u.panicked,
                    <<mk, wr, ex, rd>> \o DecodeEvents(u) \o <<rm>>, u.doc)

\* no Run call: no input file
NoFile == [path |-> <<>>, readable |-> FALSE, data |-> <<>>]

NoOutcome == Outcome(NoError, FALSE, <<>>, NilMsg)

\* c.RunText(ctx, txt, m): the method of the revision client c is built from
RunText(c, txt, m, env) ==
    CASE c.src = "http.go" -> HttpClient_RunText_http_go(c, txt, m, env)
      [] c.src = "part_005" -> HttpClient_RunText_part_005(c, txt, m, env)
      [] c.src = "cmd.go" -> Cmd_RunText_cmd_go(c, txt, m, env)
      [] c.src = "part_006" -> Cmd_RunText_part_006(c, txt, m, env)

\* Run of src/client/cmd.go, src/client/http.go, src/unnamed/part_005 and
\* src/unnamed/part_006: the file is read as a whole and RunText of the same
\* client is called on its contents
Run(c, f, m, env) ==
    IF ~f.readable
    THEN Outcome(PathError("open: no such file or directory"), FALSE,
                 <<EvReadFile(f.path, FALSE)>>, m)
    ELSE [RunText(c, f.data, m, env) EXCEPT
            !.effects = <<EvReadFile(f.path, TRUE)>> \o @]

----------------------------------------------------------------------------
(* ExtractNamedEntities.  A document is [isNil, Sentence], a sentence is
   [Token], a token is [Ner, Word]; an optional string field is <<>> when
   absent and <<s>> when set.  A map[string][]string is [isNil, m], with m a
   function from the keys present to their slices. *)

NilDocument == [isNil |-> TRUE, Sentence |-> <<>>]

NilMap == [isNil |-> TRUE, m |-> <<>>]

\* entities[key] = append(entities[key], entry)
MapAppend(m, key, entry) ==
    [k \in DOMAIN m \cup {key} |->
        IF k = key
        THEN (IF key \in DOMAIN m THEN m[key] ELSE <<>>) \o <<entry>>
        ELSE m[k]]

\* the entity collected so far is saved under its tag
SaveEntity(entities, currentNER, currentEntity) ==
    IF currentNER # "" /\ currentNER # "O" /\ Len(currentEntity) > 0
    THEN MapAppend(entities, currentNER, Join(currentEntity, " "))
    ELSE entities

\* the loop over the tokens of one sentence, and the save behind it
RECURSIVE TokenLoop(_, _, _, _)
TokenLoop(tokens, entities, currentNER, currentEntity) ==
    IF tokens = <<>>
    THEN SaveEntity(entities, currentNER, currentEntity)
    ELSE LET token == Head(tokens)
             ner == IF token.Ner # <<>> THEN token.Ner[1] ELSE ""
             changed == ner # currentNER \/ ner = "O" \/ ner = ""
             saved == IF changed
                      THEN SaveEntity(entities, currentNER, currentEntity)
                      ELSE entities
             entity == IF changed THEN <<>> ELSE currentEntity
         IN TokenLoop(Tail(tokens), saved,
                      IF changed THEN ner ELSE currentNER,
                      IF ner # "" /\ ner # "O" /\ token.Word # <<>>
                      THEN Append(entity, token.Word[1]) ELSE entity)

\* the loop over the sentences
RECURSIVE SentenceLoop(_, _)
SentenceLoop(sentences, entities) ==
    IF sentences = <<>> THEN entities
    ELSE SentenceLoop(Tail(sentences),
                      TokenLoop(Head(sentences).Token, entities, "", <<>>))

RECURSIVE AllTokens(_)
AllTokens(sentences) ==
    IF sentences = <<>> THEN <<>>
    ELSE Head(sentences).Token \o AllTokens(Tail(sentences))

\* mutant: the tokens of all sentences are walked as one sentence
ExtractNamedEntitiesFlat(d) ==
    IF d.isNil THEN NilMap
    ELSE [isNil |-> FALSE,
          m |-> TokenLoop(AllTokens(d.Sentence), <<>>, "", <<>>)]

ExtractNamedEntities(d) ==
    IF d.isNil THEN NilMap
    ELSE [isNil |-> FALSE, m |-> SentenceLoop(d.Sentence, <<>>)]

----------------------------------------------------------------------------
(* Each specification exercises one part of the package and leaves the
   variables of the other parts in their idle values. *)

AnnotatorsIdle ==
    /\ annIn = NilSlice
    /\ strIn = NilSlice
    /\ annErr = NoError
    /\ annStrs = NilSlice
    /\ annBack = NilSlice
    /\ strAnns = NilSlice
    /\ strBack = NilSlice
    /\ annPc = "idle"

DecodeIdle ==
    /\ data = <<>>
    /\ tail = <<>>
    /\ decRes = NotDecoded
    /\ decResTail = NotDecoded
    /\ decMsg = EmptyDoc
    /\ decPc = "idle"

EntitiesIdle ==
    /\ entDoc = NilDocument
    /\ entRes = NilMap
    /\ entPc = "idle"

ConcurrentIdle ==
    /\ conCmd = NoClient
    /\ conArray = <<>>
    /\ conArray0 = <<>>
    /\ calls = <<>>
    /\ dirs = <<>>

ClientIdle ==
    /\ client = NoClient
    /\ cliPc = "idle"
    /\ ctor = NoCall
    /\ text = <<>>
    /\ msg = NilMsg
    /\ ret = NoError
    /\ panicked = FALSE
    /\ effects = <<>>
    /\ doc = NilMsg
    /\ file = NoFile
    /\ direct = NoOutcome

----------------------------------------------------------------------------
(* Spec: a client is constructed and RunText is called on it, any number of
   times, one call after the other *)

URLChars == {"h", "/", "%"}

ServerAddresses == SeqsUpTo(URLChars, MaxURL)

\* the variadic arguments of NewHttpClient: none, an empty argument slice, or
\* a server address
HttpArgs == {NilSlice} \cup {MkSlice(a) : a \in SeqsUpTo(ServerAddresses, 1)}

StageNames == {<<"tokenize">>, <<" ">>}

StageLists == SlicesUpTo(StageNames, MaxStages)

ArgStrings == {<<>>, <<"x">>}

\* the variadic arguments of NewCmd: class path, class, Java command, extras
FixedCmdArgs == 3

CmdArgLists == SlicesUpTo(ArgStrings, FixedCmdArgs + MaxExtra)

Texts == {<<>>, <<"Hello world.">>}

Msgs == {NilMsg, EmptyDoc}

Statuses == {199, 200, 299, 300, 404}

BodyBytes == {0, 2, 8}

Bodies == SeqsUpTo(BodyBytes, MaxBody)

TempDirs == {<<"/tmp/coreNLP1">>}

Stderrs == {<<>>, <<"OutOfMemoryError">>}

\* what the subprocess writes to its standard output
Stdouts == {<<"Processing file input.text">>}

HttpEnvs ==
    [doErr : TransportCauses, status : {0}, readOK : {FALSE}, body : {<<>>}]
    \cup [doErr : {NoError}, status : Statuses \ {200, 299}, readOK : {FALSE},
          body : {<<>>}]
    \cup [doErr : {NoError}, status : {200, 299}, readOK : {FALSE},
          body : {<<>>}]
    \cup [doErr : {NoError}, status : {200, 299}, readOK : {TRUE},
          body : Bodies]

CmdEnvs ==
    [dir : TempDirs, mkdirOK : {FALSE}, writeOK : {FALSE}, runErr : {NoError},
     stdout : {<<>>}, stderr : {<<>>}, readOK : {FALSE}, data : {<<>>}]
    \cup [dir : TempDirs, mkdirOK : {TRUE}, writeOK : {FALSE},
          runErr : {NoError}, stdout : {<<>>}, stderr : {<<>>},
          readOK : {FALSE}, data : {<<>>}]
    \cup [dir : TempDirs, mkdirOK : {TRUE}, writeOK : {TRUE},
          runErr : RunFailures, stdout : Stdouts, stderr : Stderrs,
          readOK : {FALSE}, data : {<<>>}]
    \cup [dir : TempDirs, mkdirOK : {TRUE}, writeOK : {TRUE},
          runErr : {NoError}, stdout : Stdouts, stderr : Stderrs,
          readOK : {FALSE}, data : {<<>>}]
    \cup [dir : TempDirs, mkdirOK : {TRUE}, writeOK : {TRUE},
          runErr : {NoError}, stdout : Stdouts, stderr : Stderrs,
          readOK : {TRUE}, data : Bodies]

Init ==
    /\ client = NoClient
    /\ cliPc = "new"
    /\ ctor = NoCall
    /\ text = <<>>
    /\ msg = NilMsg
    /\ ret = NoError
    /\ panicked = FALSE
    /\ effects = <<>>
    /\ doc = NilMsg
    /\ file = NoFile
    /\ direct = NoOutcome
    /\ AnnotatorsIdle
    /\ DecodeIdle
    /\ EntitiesIdle
    /\ ConcurrentIdle

\* the constructor fn of file src returned r (or panicked) for the stage list
\* a and the variadic arguments args
Constructed(fn, src, a, args, r) ==
    /\ cliPc = "new"
    /\ client' = r.client
    /\ cliPc' = IF r.panicked THEN "panicked" ELSE "ready"
    /\ ctor' = [fn |-> fn, src |-> src, annotators |-> a, args |-> args]
    /\ UNCHANGED <<text, msg, ret, panicked, effects, doc, file, direct>>
    /\ UNCHANGED <<annVars, decVars, entVars, conVars>>

CallNewHttpClient_http_go ==
    \E a \in StageLists, args \in HttpArgs :
        Constructed("NewHttpClient", "http.go", a, args,
                    NewHttpClient_http_go(a, args))

CallNewHttpClient_part_005 ==
    \E a \in StageLists, args \in HttpArgs :
        Constructed("NewHttpClient", "part_005", a, args,
                    NewHttpClient_part_005(a, args))

CallNewCmd_cmd_go ==
    \E a \in StageLists, args \in CmdArgLists :
        Constructed("NewCmd", "cmd.go", a, args, NewCmd("cmd.go", a, args))

CallNewCmd_part_006 ==
    \E a \in StageLists, args \in CmdArgLists :
        Constructed("NewCmd", "part_006", a, args,
                    NewCmd("part_006", a, args))

\* RunText(ctx, txt, m) returned (or panicked) with outcome r
Returned(txt, m, r) ==
    /\ text' = txt
    /\ msg' = m
    /\ ret' = r.ret
    /\ panicked' = r.panicked
    /\ effects' = r.effects
    /\ doc' = r.doc
    /\ cliPc' = "returned"
    /\ UNCHANGED <<client, ctor, file, direct>>
    /\ UNCHANGED <<annVars, decVars, entVars, conVars>>

Callable(backend, src) ==
    /\ cliPc = "ready"
    /\ client.backend = backend
    /\ client.src = src

CallHttpClient_RunText_http_go ==
    /\ Callable("HttpClient", "http.go")
    /\ \E txt \in Texts, m \in Msgs, env \in HttpEnvs :
           Returned(txt, m, HttpClient_RunText_http_go(client, txt, m, env))

CallHttpClient_RunText_part_005 ==
    /\ Callable("HttpClient", "part_005")
    /\ \E txt \in Texts, m \in Msgs, env \in HttpEnvs :
           Returned(txt, m, HttpClient_RunText_part_005(client, txt, m, env))

CallCmd_RunText_cmd_go ==
    /\ Callable("Cmd", "cmd.go")
    /\ \E txt \in Texts, m \in Msgs, env \in CmdEnvs :
           Returned(txt, m, Cmd_RunText_cmd_go(client, txt, m, env))

CallCmd_RunText_part_006 ==
    /\ Callable("Cmd", "part_006")
    /\ \E txt \in Texts, m \in Msgs, env \in CmdEnvs :
           Returned(txt, m, Cmd_RunText_part_006(client, txt, m, env))

\* the caller is done with the outcome of a call; the client, which both
\* backends keep for further calls, is ready for the next one
NextCall ==
    /\ cliPc = "returned"
    /\ cliPc' = "ready"
    /\ text' = <<>>
    /\ msg' = NilMsg
    /\ ret' = NoError
    /\ panicked' = FALSE
    /\ effects' = <<>>
    /\ doc' = NilMsg
    /\ file' = NoFile
    /\ direct' = NoOutcome
    /\ UNCHANGED <<client, ctor>>
    /\ UNCHANGED <<annVars, decVars, entVars, conVars>>

Next ==
    \/ CallNewHttpClient_http_go
    \/ CallNewHttpClient_part_005
    \/ CallNewCmd_cmd_go
    \/ CallNewCmd_part_006
    \/ CallHttpClient_RunText_http_go
    \/ CallHttpClient_RunText_part_005
    \/ CallCmd_RunText_cmd_go
    \/ CallCmd_RunText_part_006
    \/ NextCall

Spec == Init /\ [][Next]_vars

----------------------------------------------------------------------------
(* SpecRun: a client is constructed and Run is called on it, any number of
   times, one call after the other.  Each call also records what RunText
   gives for the contents of the file when the server, the subprocess and
   the file system answer in the same way. *)

Paths == {<<"input.txt">>}

Files ==
    [path : Paths, readable : {TRUE}, data : Texts]
    \cup [path : Paths, readable : {FALSE}, data : {<<>>}]

\* Run(ctx, f.path, m) returned (or panicked) with outcome r, where RunText
\* on the contents gives d
RunReturned(f, m, r, d) ==
    /\ file' = f
    /\ direct' = d
    /\ text' = f.data
    /\ msg' = m
    /\ ret' = r.ret
    /\ panicked' = r.panicked
    /\ effects' = r.effects
    /\ doc' = r.doc
    /\ cliPc' = "returned"
    /\ UNCHANGED <<client, ctor>>
    /\ UNCHANGED <<annVars, decVars, entVars, conVars>>

CallHttpClient_Run_http_go ==
    /\ Callable("HttpClient", "http.go")
    /\ \E f \in Files, m \in Msgs, env \in HttpEnvs :
           RunReturned(f, m, Run(client, f, m, env),
                       HttpClient_RunText_http_go(client, f.data, m, env))

CallHttpClient_Run_part_005 ==
    /\ Callable("HttpClient", "part_005")
    /\ \E f \in Files, m \in Msgs, env \in HttpEnvs :
           RunReturned(f, m, Run(client, f, m, env),
                       HttpClient_RunText_part_005(client, f.data, m, env))

CallCmd_Run_cmd_go ==
    /\ Callable("Cmd", "cmd.go")
    /\ \E f \in Files, m \in Msgs, env \in CmdEnvs :
           RunReturned(f, m, Run(client, f, m, env),
                       Cmd_RunText_cmd_go(client, f.data, m, env))

CallCmd_Run_part_006 ==
    /\ Callable("Cmd", "part_006")
    /\ \E f \in Files, m \in Msgs, env \in CmdEnvs :
           RunReturned(f, m, Run(client, f, m, env),
                       Cmd_RunText_part_006(client, f.data, m, env))

NextRun ==
    \/ CallNewHttpClient_http_go
    \/ CallNewHttpClient_part_005
    \/ CallNewCmd_cmd_go
    \/ CallNewCmd_part_006
    \/ CallHttpClient_Run_http_go
    \/ CallHttpClient_Run_part_005
    \/ CallCmd_Run_cmd_go
    \/ CallCmd_Run_part_006
    \/ NextCall

SpecRun == Init /\ [][NextRun]_vars

----------------------------------------------------------------------------
(* SpecDecode: BytesUnmarshal applied to every bounded buffer, and to the
   same buffer with bytes appended *)

Repeat(x, k) == [i \in 1..k |-> x]

\* buffers whose varint runs to the maximal width: k continuation bytes
\* followed by a short ending
LongBuffers ==
    {Repeat(ContinuationBit, k) \o e :
        k \in (MaxVarintLen - 2)..MaxVarintLen,
        e \in {<<>>, <<0>>, <<1>>, <<2>>, <<0, 8>>}}

Buffers == SeqsUpTo(Bytes, MaxBuf) \cup LongBuffers

Tails == SeqsUpTo(Bytes, MaxTail) \ {<<>>}

InitDecode ==
    /\ data \in Buffers
    /\ tail \in Tails
    /\ decRes = NotDecoded
    /\ decResTail = NotDecoded
    /\ decMsg \in {EmptyDoc, NilMsg}
    /\ decPc = "input"
    /\ AnnotatorsIdle
    /\ ClientIdle
    /\ EntitiesIdle
    /\ ConcurrentIdle

CallBytesUnmarshal ==
    /\ decPc = "input"
    /\ decRes' = BytesUnmarshal(data, decMsg)
    /\ decPc' = "one"
    /\ UNCHANGED <<data, tail, decMsg, decResTail>>
    /\ UNCHANGED <<annVars, cliVars, entVars, conVars>>

CallBytesUnmarshalTail ==
    /\ decPc = "one"
    /\ decResTail' = BytesUnmarshal(data \o tail, decMsg)
    /\ decPc' = "done"
    /\ UNCHANGED <<data, tail, decMsg, decRes>>
    /\ UNCHANGED <<annVars, cliVars, entVars, conVars>>

NextDecode == CallBytesUnmarshal \/ CallBytesUnmarshalTail

SpecDecode == InitDecode /\ [][NextDecode]_vars

----------------------------------------------------------------------------
(* SpecAnnotators: the registry functions applied to every bounded input *)

StringSlices == SlicesUpTo(Names, MaxAnn)

\* every []string argument, the predefined combinations among them, and the
\* []Annotator argument of the same names
InitAnnotators ==
    /\ strIn \in StringSlices
                 \cup {AnnotatorsToStrings(b) : b \in PredefinedCombinations}
    /\ annIn = [isNil |-> strIn.isNil,
                elems |-> [i \in 1..SliceLen(strIn) |-> Annotator(strIn.elems[i])]]
    /\ annErr = NoError
    /\ annStrs = NilSlice
    /\ annBack = NilSlice
    /\ strAnns = NilSlice
    /\ strBack = NilSlice
    /\ annPc = "input"
    /\ DecodeIdle
    /\ ClientIdle
    /\ EntitiesIdle
    /\ ConcurrentIdle

CallValidateAnnotators ==
    /\ annPc = "input"
    /\ annErr' = ValidateAnnotators(annIn)
    /\ annPc' = "validated"
    /\ UNCHANGED <<annIn, strIn, annStrs, annBack, strAnns, strBack>>
    /\ UNCHANGED <<decVars, cliVars, entVars, conVars>>

CallConversions ==
    /\ annPc = "validated"
    /\ annStrs' = AnnotatorsToStrings(annIn)
    /\ annBack' = StringsToAnnotators(AnnotatorsToStrings(annIn))
    /\ strAnns' = StringsToAnnotators(strIn)
    /\ strBack' = AnnotatorsToStrings(StringsToAnnotators(strIn))
    /\ annPc' = "done"
    /\ UNCHANGED <<annIn, strIn, annErr>>
    /\ UNCHANGED <<decVars, cliVars, entVars, conVars>>

NextAnnotators == CallValidateAnnotators \/ CallConversions

SpecAnnotators == InitAnnotators /\ [][NextAnnotators]_vars

----------------------------------------------------------------------------
(* SpecEntities: ExtractNamedEntities applied to every bounded document *)

\* the entity tags of a token: absent, empty, "O" (outside), or one of two
\* entity types
NerTags == {"", "O", "PER", "LOC"}

\* what a document is made of: a token (with its optional tag, and with or
\* without a word) or the break between two sentences
Items ==
    [brk : {FALSE}, Ner : {<<>>} \cup {<<t>> : t \in NerTags}, hasWord : BOOLEAN]
        \cup {[brk |-> TRUE, Ner |-> <<>>, hasWord |-> FALSE]}

\* the sentences of the items from position k on, cur being the tokens of the
\* sentence in progress; the word of a token is the number of its position
RECURSIVE Sentences(_, _, _)
Sentences(items, k, cur) ==
    IF k > Len(items) THEN <<[Token |-> cur]>>
    ELSE IF items[k].brk
    THEN <<[Token |-> cur]>> \o Sentences(items, k + 1, <<>>)
    ELSE Sentences(items, k + 1,
                   Append(cur, [Ner |-> items[k].Ner,
                                Word |-> IF items[k].hasWord
                                         THEN << <<ToString(k)>> >>
                                         ELSE <<>>]))

Documents ==
    {NilDocument, [isNil |-> FALSE, Sentence |-> <<>>]}
        \cup {[isNil |-> FALSE, Sentence |-> Sentences(items, 1, <<>>)] :
                  items \in SeqsUpTo(Items, MaxItems)}

InitEntities ==
    /\ entDoc \in Documents
    /\ entRes = NilMap
    /\ entPc = "input"
    /\ AnnotatorsIdle
    /\ DecodeIdle
    /\ ClientIdle
    /\ ConcurrentIdle

CallExtractNamedEntities ==
    /\ entPc = "input"
    /\ entRes' = ExtractNamedEntities(entDoc)
    /\ entPc' = "done"
    /\ UNCHANGED entDoc
    /\ UNCHANGED <<annVars, decVars, cliVars, conVars>>

NextEntities == CallExtractNamedEntities

SpecEntities == InitEntities /\ [][NextEntities]_vars

----------------------------------------------------------------------------
(* SpecConcurrent: two RunText calls run concurrently on one Cmd.  Each call
   takes the steps of RunText one at a time.  Cmd.Args is the slice
   conArray[0:len] with capacity Len(conArray): NewCmd keeps the tail
   args[3:] of the caller's slice, spare capacity included.  Each append of
   RunText is one step (the element writes of two calls can interleave more
   finely; every outcome here is one the finer interleaving has as well). *)

CallIds == {1, 2}

\* the text of call i
CallText(i) == <<"text", ToString(i)>>

\* the directory os.MkdirTemp creates for call i: a new name for each call
DirOf(i) == <<"/tmp/coreNLP", ToString(i)>>

\* the serialized document the annotation engine writes for a text
EngineOutput(txt) == IF txt = CallText(1) THEN <<2, 8, 1>> ELSE <<2, 8, 2>>

NoDir == [exists |-> FALSE, input |-> <<>>, output |-> <<>>, writer |-> 0]

\* the local variable args of a call: conArray[0:len] while it shares the
\* array of c.Args, its own elements after an append that had to reallocate
LocalSlice(shared, n, elems) == [shared |-> shared, len |-> n, elems |-> elems]

SliceContents(a) == IF a.shared THEN SubSeq(conArray, 1, a.len) ELSE a.elems

\* append(a, chunk...): in place when the capacity suffices
AppendInPlace(a, chunk) == a.shared /\ a.len + Len(chunk) <= Len(conArray)

Appended(a, chunk) ==
    IF AppendInPlace(a, chunk)
    THEN LocalSlice(TRUE, a.len + Len(chunk), <<>>)
    ELSE LocalSlice(FALSE, 0, SliceContents(a) \o chunk)

ArrayAfterAppend(a, chunk) ==
    IF AppendInPlace(a, chunk)
    THEN [k \in 1..Len(conArray) |->
             IF k > a.len /\ k <= a.len + Len(chunk)
             THEN chunk[k - a.len] ELSE conArray[k]]
    ELSE conArray

NotCalled ==
    [pc |-> "start", args |-> LocalSlice(TRUE, 0, <<>>), started |-> FALSE,
     execArgs |-> <<>>, data |-> <<>>, readWriter |-> 0, ret |-> NoError,
     doc |-> EmptyDoc]

\* the spare capacities of the caller's slice
Spares == {0, 1, MaxSpare}

\* NewCmd(annotators, s...) on a slice s of class path, class, Java command
\* and extra arguments that has spare capacity
InitConcurrent ==
    /\ \E src \in {"cmd.go", "part_006"},
          a \in {NilSlice, MkSlice(<< <<"tokenize">> >>)},
          cp \in {<<>>, <<"*">>},
          extra \in {<<>>, << <<"-Xmx4g">> >>},
          spare \in Spares :
          /\ conCmd = NewCmd(src, a,
                             MkSlice(<<cp, <<"C">>, <<"java">> >> \o extra)).client
          /\ conArray = extra \o [k \in 1..spare |-> <<"caller">>]
    /\ conArray0 = conArray
    /\ calls = [i \in CallIds |-> NotCalled]
    /\ dirs = [i \in CallIds |-> NoDir]
    /\ AnnotatorsIdle
    /\ DecodeIdle
    /\ ClientIdle
    /\ EntitiesIdle

At(i, pc) == calls[i].pc = pc

Goto(i, pc) == calls' = [calls EXCEPT ![i].pc = pc]

\* os.MkdirTemp("", "coreNLP")
RunText_MkdirTemp ==
    \E i \in CallIds :
        /\ At(i, "start")
        /\ dirs' = [dirs EXCEPT ![i] = [NoDir EXCEPT !.exists = TRUE]]
        /\ Goto(i, "write")
        /\ UNCHANGED <<conCmd, conArray, conArray0>>
        /\ UNCHANGED <<annVars, decVars, cliVars, entVars>>

\* os.WriteFile(input, text, 0666); args := c.Args
RunText_WriteFile ==
    \E i \in CallIds :
        /\ At(i, "write")
        /\ dirs' = [dirs EXCEPT ![i].input = <<CallText(i)>>]
        /\ calls' = [calls EXCEPT
                        ![i].pc = "classpath",
                        ![i].args = LocalSlice(TRUE, SliceLen(conCmd.Args), <<>>)]
        /\ UNCHANGED <<conCmd, conArray, conArray0>>
        /\ UNCHANGED <<annVars, decVars, cliVars, entVars>>

\* call i appends chunk to its args and goes on to pc
AppendStep(i, chunk, pc) ==
    /\ calls' = [calls EXCEPT ![i].pc = pc,
                              ![i].args = Appended(calls[i].args, chunk)]
    /\ conArray' = ArrayAfterAppend(calls[i].args, chunk)
    /\ UNCHANGED <<conCmd, conArray0, dirs>>
    /\ UNCHANGED <<annVars, decVars, cliVars, entVars>>

\* if c.ClassPath != "" { args = append(args, "-cp", c.ClassPath) }
RunText_AppendClassPath ==
    \E i \in CallIds :
        /\ At(i, "classpath")
        /\ AppendStep(i, IF conCmd.ClassPath # <<>>
                         THEN << <<"-cp">>, conCmd.ClassPath >> ELSE <<>>,
                      "class")

\* args = append(args, c.Class)
RunText_AppendClass ==
    \E i \in CallIds :
        /\ At(i, "class")
        /\ AppendStep(i, <<conCmd.Class>>, "annotators")

\* if len(c.Annotators) > 0 { args = append(args, "-annotators", ...) }
RunText_AppendAnnotators ==
    \E i \in CallIds :
        /\ At(i, "annotators")
        /\ AppendStep(i, IF SliceLen(conCmd.Annotators) > 0
                         THEN << <<"-annotators">>,
                                 Join(conCmd.Annotators.elems, ",") >>
                         ELSE <<>>,
                      "file")

\* args = append(args, "-file", input, "--outputDirectory", outputDir, ...)
RunText_AppendFile ==
    \E i \in CallIds :
        /\ At(i, "file")
        /\ AppendStep(i, << <<"-file">>, InputPath(DirOf(i)),
                            <<"--outputDirectory">>, DirOf(i),
                            <<"-outputFormat">>, <<"serialized">>,
                            <<"-outputSerializer">>,
                            <<"edu.stanford.nlp.pipeline.ProtobufAnnotationSerializer">> >>,
                      "command")

\* exec.CommandContext(ctx, c.javaCmd, args...) copies the arguments; cmd.Run
\* starts the subprocess
RunText_Command ==
    \E i \in CallIds :
        /\ At(i, "command")
        /\ calls' = [calls EXCEPT ![i].pc = "running", ![i].started = TRUE,
                                  ![i].execArgs = SliceContents(calls[i].args)]
        /\ UNCHANGED <<conCmd, conArray, conArray0, dirs>>
        /\ UNCHANGED <<annVars, decVars, cliVars, entVars>>

\* the argument behind the flag, <<>> if the flag is missing
ArgAfter(argv, flag) ==
    LET at == {k \in 1..(Len(argv) - 1) : argv[k] = flag}
    IN IF at = {} THEN <<>>
       ELSE argv[(CHOOSE k \in at : \A l \in at : k <= l) + 1]

\* the directories the subprocess of call i reads its input from and writes
\* its output to
InputDirs(i) ==
    {j \in CallIds : ArgAfter(calls[i].execArgs, <<"-file">>) = InputPath(DirOf(j))}

OutputDirs(i) ==
    {j \in CallIds : ArgAfter(calls[i].execArgs, <<"--outputDirectory">>) = DirOf(j)}

\* the engine can do its work: its input file and output directory exist
EngineCanRun(i) ==
    /\ \E j \in InputDirs(i) : dirs[j].exists /\ dirs[j].input # <<>>
    /\ \E j \in OutputDirs(i) : dirs[j].exists

\* the error RunText returns when cmd.Run reports err
RunError(c, err) ==
    IF c.src = "cmd.go" THEN CommandError(c.javaCmd, <<>>, err)
    ELSE [ErrorString("%s: %s", 0) EXCEPT !.msg = err.msg] @@ [Text |-> <<>>]

\* the error RunText returns when the output file cannot be read
ReadError(c) ==
    IF c.src = "cmd.go"
    THEN WrapError("failed to read output file",
                   PathError("open: no such file or directory"))
    ELSE PathError("open: no such file or directory")

\* the subprocess annotates its input file, writes input.text.ser.gz to its
\* output directory and exits; cmd.Run returns
Subprocess_Exit ==
    \E i \in CallIds :
        /\ At(i, "running")
        /\ IF EngineCanRun(i)
           THEN LET in == CHOOSE j \in InputDirs(i) : TRUE
                    out == CHOOSE j \in OutputDirs(i) : TRUE
                IN /\ dirs' = [dirs EXCEPT
                                  ![out].output =
                                      <<EngineOutput(dirs[in].input[1])>>,
                                  ![out].writer = i]
                   /\ Goto(i, "read")
           ELSE /\ calls' = [calls EXCEPT
                                ![i].pc = "cleanup",
                                ![i].ret = RunError(conCmd,
                                    [type |-> "*exec.ExitError", ptr |-> "fresh",
                                     msg |-> "exit status 1", index |-> 0])]
                /\ UNCHANGED dirs
        /\ UNCHANGED <<conCmd, conArray, conArray0>>
        /\ UNCHANGED <<annVars, decVars, cliVars, entVars>>

\* os.ReadFile(input + ".ser.gz"): the file of the call's own directory
RunText_ReadFile ==
    \E i \in CallIds :
        /\ At(i, "read")
        /\ IF dirs[i].exists /\ dirs[i].output # <<>>
           THEN calls' = [calls EXCEPT ![i].pc = "decode",
                                       ![i].data = dirs[i].output[1],
                                       ![i].readWriter = dirs[i].writer]
           ELSE calls' = [calls EXCEPT ![i].pc = "cleanup",
                                       ![i].ret = ReadError(conCmd)]
        /\ UNCHANGED <<conCmd, conArray, conArray0, dirs>>
        /\ UNCHANGED <<annVars, decVars, cliVars, entVars>>

\* return BytesUnmarshal(data, msg)
RunText_BytesUnmarshal ==
    \E i \in CallIds :
        /\ At(i, "decode")
        /\ calls' = [calls EXCEPT
                        ![i].pc = "cleanup",
                        ![i].ret = BytesUnmarshal(calls[i].data, EmptyDoc).err,
                        ![i].doc = BytesUnmarshal(calls[i].data, EmptyDoc).doc]
        /\ UNCHANGED <<conCmd, conArray, conArray0, dirs>>
        /\ UNCHANGED <<annVars, decVars, cliVars, entVars>>

\* the deferred os.RemoveAll(outputDir)
RunText_RemoveAll ==
    \E i \in CallIds :
        /\ At(i, "cleanup")
        /\ dirs' = [dirs EXCEPT ![i] = NoDir]
        /\ Goto(i, "done")
        /\ UNCHANGED <<conCmd, conArray, conArray0>>
        /\ UNCHANGED <<annVars, decVars, cliVars, entVars>>

NextConcurrent ==
    \/ RunText_MkdirTemp
    \/ RunText_WriteFile
    \/ RunText_AppendClassPath
    \/ RunText_AppendClass
    \/ RunText_AppendAnnotators
    \/ RunText_AppendFile
    \/ RunText_Command
    \/ Subprocess_Exit
    \/ RunText_ReadFile
    \/ RunText_BytesUnmarshal
    \/ RunText_RemoveAll

SpecConcurrent == InitConcurrent /\ [][NextConcurrent]_vars

----------------------------------------------------------------------------
(* Claims about the annotator registry (SpecAnnotators) *)

\* a name that is empty or consists of white space only
Blank(s) == \A i \in 1..Len(s) : s[i] \in WhiteSpace

HasBlankEntry(sl) == \E i \in 1..SliceLen(sl) : Blank(sl.elems[i].s)

\* C1: ValidateAnnotators returns no error exactly for the non-empty lists
\* without an empty or white-space-only entry; the empty list, the nil list
\* and every list with such an entry at any position get an error.
C1_ValidateAccepts ==
    annPc # "input" =>
        (annErr = NoError <=> (SliceLen(annIn) > 0 /\ ~HasBlankEntry(annIn)))

\* a two-entry list whose SECOND entry is white space only is rejected
C1_Witness ==
    /\ annPc = "validated"
    /\ SliceLen(annIn) = 2
    /\ ~Blank(annIn.elems[1].s)
    /\ annIn.elems[2].s = <<" ", "\t">>
    /\ annErr # NoError

\* C2: every error ValidateAnnotators returns is a ConfigurationError: the
\* typed *AnnotatorError, or the ErrNoAnnotators sentinel itself, so that
\* errors.As / errors.Is recognise it.
C2_ValidateErrorIsTyped ==
    (annPc # "input" /\ annErr # NoError) =>
        \/ annErr.type = "*client.AnnotatorError"
        \/ ErrorsIs(annErr, ErrNoAnnotators)

\* same length, same entries, same order
SameList(x, y) ==
    /\ SliceLen(x) = SliceLen(y)
    /\ \A i \in 1..SliceLen(y) : x.elems[i] = y.elems[i]

\* C3: AnnotatorsToStrings(StringsToAnnotators(s)) has the length, entries
\* and order of s, and StringsToAnnotators(AnnotatorsToStrings(a)) those of a.
C3_RoundTrip ==
    annPc = "done" => (SameList(strBack, strIn) /\ SameList(annBack, annIn))

\* a list with an empty entry that occurs twice has made the round trip in
\* both directions
C3_Witness ==
    /\ annPc = "done"
    /\ strIn.elems = << <<>>, <<>> >>
    /\ strBack.elems = strIn.elems
    /\ annBack.elems = annIn.elems
    /\ annBack.elems[2].T = "Annotator"

\* the names of a list of annotators, in order
StageNamesOf(sl) == [i \in 1..SliceLen(sl) |-> String(sl.elems[i])]

\* the list ValidateAnnotators was given is the predefined combination b,
\* and it is the sequence readme, which starts with tokenize, ssplit and has
\* no empty entry
AsDocumented(b, readme) ==
    (annPc # "input" /\ annIn.elems = b.elems) =>
        /\ StageNamesOf(annIn) = readme
        /\ SubSeq(StageNamesOf(annIn), 1, 2) = << <<"tokenize">>, <<"ssplit">> >>
        /\ \A i \in 1..SliceLen(annIn) : String(annIn.elems[i]) # <<>>

\* C18: each predefined combination is exactly the ordered sequence the
\* README lists for it, starts with tokenize, ssplit and has no empty entry.
C18_BundlesAsDocumented ==
    /\ AsDocumented(BasicAnnotators, README_BasicAnnotators)
    /\ AsDocumented(SyntaxAnnotators, README_SyntaxAnnotators)
    /\ AsDocumented(NERAnnotators, README_NERAnnotators)
    /\ AsDocumented(SemanticAnnotators, README_SemanticAnnotators)
    /\ AsDocumented(RelationExtractionAnnotators,
                    README_RelationExtractionAnnotators)

\* every stage of the list names has each of its requirements at an earlier
\* position
DependencyOrdered(names) ==
    \A i \in 1..Len(names) :
        \A r \in Requires(names[i]) : \E j \in 1..(i - 1) : names[j] = r

\* C28: every predefined combination has, for each of its stages, all the
\* stages documented as that stage's requirements at earlier positions; so
\* has the list of names it converts to.
C28_BundlesDependencyOrdered ==
    (annPc # "input" /\ annIn \in PredefinedCombinations) =>
        /\ DependencyOrdered(StageNamesOf(annIn))
        /\ annPc = "done" => DependencyOrdered(annStrs.elems)

\* the relation extraction combination was converted: openie comes last,
\* behind natlog and depparse
C28_Witness ==
    /\ annPc = "done"
    /\ annIn = RelationExtractionAnnotators
    /\ Len(annStrs.elems) = 9
    /\ annStrs.elems[9] = <<"openie">>
    /\ annStrs.elems[8] = <<"natlog">>
    /\ Requires(annStrs.elems[9]) # {}

----------------------------------------------------------------------------
(* Claims about ExtractNamedEntities (SpecEntities) *)

TagOf(token) == IF token.Ner # <<>> THEN token.Ner[1] ELSE ""

\* the maximal runs of consecutive tokens of one sentence of entDoc that
\* share one tag other than "O" and the empty tag
EntityRuns ==
    {r \in [s : 1..Len(entDoc.Sentence), first : 1..MaxItems + 1,
            last : 1..MaxItems + 1] :
        LET tokens == entDoc.Sentence[r.s].Token IN
        /\ r.first <= r.last
        /\ r.last <= Len(tokens)
        /\ TagOf(tokens[r.first]) \notin {"", "O"}
        /\ \A i \in r.first..r.last : TagOf(tokens[i]) = TagOf(tokens[r.first])
        /\ r.first > 1 => TagOf(tokens[r.first - 1]) # TagOf(tokens[r.first])
        /\ r.last < Len(tokens) =>
               TagOf(tokens[r.last + 1]) # TagOf(tokens[r.first])}

RunTag(r) == TagOf(entDoc.Sentence[r.s].Token[r.first])

HasWord(token) == token.Word # <<>>

\* the words of the tokens of run r that carry a word, in order
RunWords(r) ==
    LET withWord == SelectSeq(SubSeq(entDoc.Sentence[r.s].Token, r.first, r.last),
                              HasWord)
    IN [i \in 1..Len(withWord) |-> withWord[i].Word[1]]

\* the place of run r among the runs R, in document order
RunRank(r, R) ==
    Cardinality({q \in R : q.s < r.s \/ (q.s = r.s /\ q.first < r.first)}) + 1

\* the slice the returned map holds under tag t
EntriesOf(t) == IF t \in DOMAIN entRes.m THEN entRes.m[t] ELSE <<>>

\* the returned map has, under every tag, exactly one entry for each of the
\* runs R of that tag, in document order: the run's words joined by spaces
OneEntryPerRun(R) ==
    /\ ~entRes.isNil
    /\ DOMAIN entRes.m \subseteq {RunTag(r) : r \in R}
    /\ \A t \in NerTags \cup DOMAIN entRes.m :
           LET Rt == {r \in R : RunTag(r) = t} IN
           /\ Len(EntriesOf(t)) = Cardinality(Rt)
           /\ \A r \in Rt :
                  EntriesOf(t)[RunRank(r, Rt)] = Join(RunWords(r), " ")

----------------------------------------------------------------------------
(* Claims about the decoder (SpecDecode) *)

\* buffer b starts with a varint of width w: b[w] is its first byte without
\* the continuation bit, and a varint of the maximal width ends in 0 or 1
VarintAt(b, w) ==
    /\ w \in 1..Min(Len(b), MaxVarintLen)
    /\ b[w] < ContinuationBit
    /\ \A i \in 1..(w - 1) : b[i] >= ContinuationBit
    /\ w = MaxVarintLen => b[w] <= 1

\* the varint of width w at the start of b announces more than Len(b) bytes:
\* a 7-bit group from the fourth on weighs 128^3 and more, which exceeds the
\* length of every buffer of the model
HugeLength(b, w) == \E i \in 4..w : b[i] % ContinuationBit # 0

Group(b, w, i) == IF i <= w THEN b[i] % ContinuationBit ELSE 0

\* its value otherwise
SmallLength(b, w) ==
    Group(b, w, 1) + Group(b, w, 2) * ContinuationBit
        + Group(b, w, 3) * ContinuationBit * ContinuationBit

\* b starts with a valid varint of width w and value L, and at least L bytes
\* follow it
Framed(b, w, L) ==
    /\ VarintAt(b, w)
    /\ ~HugeLength(b, w)
    /\ L = SmallLength(b, w)
    /\ L <= Len(b) - w

SameOutcome(r1, r2) ==
    /\ r1.err = r2.err
    /\ r1.doc = r2.doc
    /\ r1.panicked = r2.panicked
    /\ r1.unmarshalled = r2.unmarshalled
    /\ r1.bs = r2.bs

\* C4: when the buffer starts with a valid varint L followed by at least L
\* bytes, proto.Unmarshal receives exactly the L bytes behind the varint, and
\* bytes beyond them change nothing: the buffer cut after those L bytes and
\* the buffer with further bytes appended give the same error and document.
C4_ExactPayload ==
    decPc = "done" =>
        \A w \in 1..MaxVarintLen : \A L \in 0..Len(data) :
            Framed(data, w, L) =>
                /\ decRes.unmarshalled
                /\ decRes.bs = SubSeq(data, w + 1, w + L)
                /\ SameOutcome(decRes,
                               BytesUnmarshal(SubSeq(data, 1, w + L), decMsg))
                /\ SameOutcome(decRes, decResTail)

\* a two-byte record followed by a byte that is not part of it, decoded, and
\* decoded again with one more byte appended
C4_Witness ==
    /\ decPc = "done"
    /\ decMsg = EmptyDoc
    /\ data = <<2, 8, 0, 1>>
    /\ tail = <<129>>
    /\ decRes.unmarshalled
    /\ decRes.bs = <<8, 0>>
    /\ decRes.err = NoError
    /\ decResTail.doc = decRes.doc

\* no byte without the continuation bit within the maximal varint width (this
\* covers the empty buffer), or a varint of maximal width that overflows
Malformed(b) ==
    \/ \A i \in 1..Min(Len(b), MaxVarintLen) : b[i] >= ContinuationBit
    \/ /\ Len(b) >= MaxVarintLen
       /\ \A i \in 1..(MaxVarintLen - 1) : b[i] >= ContinuationBit
       /\ b[MaxVarintLen] > 1

\* fewer than L bytes follow the varint
Short(b) ==
    \E w \in 1..MaxVarintLen :
        /\ VarintAt(b, w)
        /\ HugeLength(b, w) \/ SmallLength(b, w) > Len(b) - w

\* the errors of the framing step, protowire.ParseError(n)
FramingError(err) == err.ptr \in {"io.ErrUnexpectedEOF", "protowire.errOverflow"}

\* C5: an empty buffer, a malformed length varint, or fewer than L bytes
\* behind the varint make BytesUnmarshal fail with the framing error, and
\* proto.Unmarshal is not called.
C5_FramingFailure ==
    (decPc # "input" /\ (data = <<>> \/ Malformed(data) \/ Short(data))) =>
        /\ FramingError(decRes.err)
        /\ ~decRes.unmarshalled
        /\ ~decRes.panicked
        /\ decRes.doc = decMsg

\* a buffer that announces two bytes and carries one
C5_Witness ==
    /\ decPc = "one"
    /\ data = <<2, 8>>
    /\ decRes.err.ptr = "io.ErrUnexpectedEOF"
    /\ ~decRes.unmarshalled

\* C21 as stated: a buffer that carries bytes after the L payload bytes its
\* length prefix announces is rejected with a decode error, as a buffer
\* with fewer than L payload bytes is.
C21_TrailingRejected ==
    /\ (decPc = "done" /\ \E w \in 1..MaxVarintLen, L \in 0..Len(data) :
                             Framed(data, w, L)) =>
           (~decResTail.panicked => decResTail.err # NoError)
    /\ (decPc # "input" /\ Short(data)) => decRes.err # NoError

\* C21 as amended: bytes after the L payload bytes are ignored: the buffer
\* with such bytes is decoded, or rejected, exactly as the buffer that ends
\* with its payload; a buffer with fewer than L payload bytes is rejected.
C21_TrailingIgnored ==
    /\ (decPc = "done" /\ \E w \in 1..MaxVarintLen :
                             Framed(data, w, Len(data) - w)) =>
           /\ decResTail.err = decRes.err
           /\ decResTail.doc = decRes.doc
           /\ decResTail.bs = SubSeq(data \o tail, Len(data) - Len(decRes.bs) + 1,
                                     Len(data))
    /\ (decPc # "input" /\ Short(data)) =>
           (FramingError(decRes.err) /\ ~decRes.unmarshalled)

\* a buffer that ends with its two-byte record is decoded, and decoded
\* again without error with one byte behind the record
C21_Witness ==
    /\ decPc = "done"
    /\ decMsg = EmptyDoc
    /\ data = <<2, 8, 1>>
    /\ tail = <<0>>
    /\ decRes.err = NoError
    /\ decResTail.err = NoError
    /\ decResTail.doc.set
    /\ decResTail.bs = <<8, 1>>

\* the low-level error of the decode step for buffer b: the framing error
\* of protowire, or the error of proto.Unmarshal
LowLevelCause(b) ==
    IF ConsumeBytes(b).n < 0 THEN ParseError(ConsumeBytes(b).n) ELSE errDecode

\* C20: every failure of the decode step, in the framing or in deserializing
\* the payload, is returned by BytesUnmarshal as a *client.ParseError that
\* wraps the low-level cause.
C20_DecodeErrorWraps ==
    (decPc # "input" /\ ~decRes.panicked /\ decRes.err # NoError) =>
        /\ decRes.err.type = "*client.ParseError"
        /\ Unwrap(decRes.err) = LowLevelCause(data)

----------------------------------------------------------------------------
(* Claims about the backends (Spec) *)

\* C6: RunText with empty text returns ErrEmptyInput and performs no external
\* action, for both backends.
C6_EmptyInput ==
    (cliPc = "returned" /\ text = <<>>) =>
        /\ ~panicked
        /\ ErrorsIs(ret, ErrEmptyInput)
        /\ effects = <<>>

\* C7: RunText with non-empty text and a nil message returns ErrNilMessage
\* and performs no external action, for both backends.
C7_NilMessage ==
    (cliPc = "returned" /\ text # <<>> /\ msg.isNil) =>
        /\ ~panicked
        /\ ErrorsIs(ret, ErrNilMessage)
        /\ effects = <<>>

\* the server address NewHttpClient was given, or the default
GivenURL == IF SliceLen(ctor.args) > 0 THEN ctor.args.elems[1] ELSE DefaultURL

EndsInSeparator(u) == u # <<>> /\ u[Len(u)] = "/"

\* C8: for every address given to NewHttpClient that does not end in "/", and
\* for the default address, the stored URL is the address followed by a
\* single "/".
C8_SeparatorAppended ==
    (ctor.fn = "NewHttpClient" /\ ~EndsInSeparator(GivenURL)) =>
        /\ cliPc # "panicked"
        /\ client.URL = GivenURL \o <<"/">>

\* the request URL has no two separators in front of the query
NoDoubledSeparator(url, base) ==
    ~(Len(base) >= 2 /\ url[Len(base) - 1] = "/" /\ url[Len(base)] = "/")

\* C9: an address that already ends in one "/" is stored unchanged, and no
\* request of RunText on that client has "//" in front of "?properties=".
C9_SeparatorOnlyIfAbsent ==
    (/\ ctor.fn = "NewHttpClient"
     /\ EndsInSeparator(GivenURL)
     /\ ~EndsInSeparator(SubSeq(GivenURL, 1, Len(GivenURL) - 1))) =>
        /\ cliPc # "panicked"
        /\ client.URL = GivenURL
        /\ \A i \in 1..Len(effects) :
               effects[i].op = "http.Client.Do" =>
                   NoDoubledSeparator(effects[i].url, client.URL)

IsServerError(err) == err.type = "*client.ServerError"

\* C10: when HttpClient.RunText has received a response, it fails with a
\* ServerError exactly if the status is outside [200,300); that error carries
\* the status and the client's URL, and the decoder is not invoked.
C10_StatusOutside2xx ==
    (cliPc = "returned" /\ client.backend = "HttpClient") =>
        \A i \in 1..Len(effects) :
            (effects[i].op = "http.Client.Do" /\ effects[i].status > 0) =>
                IF effects[i].status < 200 \/ effects[i].status >= 300
                THEN /\ IsServerError(ret)
                     /\ ret.StatusCode = effects[i].status
                     /\ ret.URL = client.URL
                     /\ \A j \in 1..Len(effects) :
                            effects[j].op # "proto.Unmarshal"
                ELSE ~IsServerError(ret)

\* the events of kind op among the external actions of the last call
Events(op) == {i \in 1..Len(effects) : effects[i].op = op}

\* C11: when the exchange fails without a response, HttpClient.RunText
\* returns a ServerError that carries the client's URL and the message of the
\* failure, whose status code is zero and whose text has no status part.
C11_TransportFailure ==
    (cliPc = "returned" /\ client.backend = "HttpClient") =>
        \A i \in Events("http.Client.Do") :
            effects[i].err # NoError =>
                /\ IsServerError(ret)
                /\ ret.URL = client.URL
                /\ ret.Message = ErrorText(effects[i].err)
                /\ ret.StatusCode = 0
                /\ \A k \in 1..Len(ServerError_Error(ret)) :
                       ServerError_Error(ret)[k] # "] (status "

\* C12: when the subprocess cannot be started or exits non-zero, Cmd.RunText
\* returns a CommandError whose Command is the configured executable, whose
\* Stderr is exactly what the subprocess wrote to standard error, and whose
\* Err is the failure of the run.
C12_ExecutionError ==
    (cliPc = "returned" /\ client.backend = "Cmd") =>
        \A i \in Events("exec.Cmd.Run") :
            effects[i].err # NoError =>
                /\ ret.type = "*client.CommandError"
                /\ ret.Command = client.javaCmd
                /\ ret.Stderr = effects[i].stderr
                /\ Unwrap(ret) = effects[i].err

\* directory dir exists when the last call is over: it was created and not
\* removed afterwards
ExistsAfter(dir) ==
    \E i \in Events("os.MkdirTemp") :
        /\ effects[i].ok
        /\ effects[i].dir = dir
        /\ \A j \in (i + 1)..Len(effects) : effects[j] # EvRemoveAll(dir)

\* C13: whenever Cmd.RunText has created its temporary directory, the
\* directory no longer exists when the call is over, and nothing is written
\* to it after its removal, on every exit path: decode success, failure of
\* the input write, of the subprocess (cancellation included), of reading
\* the output artifact, and of the decode.
C13_TempDirRemoved ==
    (cliPc = "returned" /\ client.backend = "Cmd") =>
        \A i \in Events("os.MkdirTemp") :
            effects[i].ok =>
                /\ ~ExistsAfter(effects[i].dir)
                /\ effects[Len(effects)] = EvRemoveAll(effects[i].dir)

\* the subprocess was killed on cancellation, after the directory and the
\* input file were created, and the directory is removed
C13_Witness ==
    /\ cliPc = "returned"
    /\ client.backend = "Cmd"
    /\ Len(effects) = 4
    /\ effects[1] = EvMkdirTemp(<<"/tmp/coreNLP1">>, TRUE)
    /\ effects[2].op = "os.WriteFile" /\ effects[2].ok
    /\ effects[3].op = "exec.Cmd.Run" /\ effects[3].err.ptr = "context.Canceled"
    /\ effects[4] = EvRemoveAll(<<"/tmp/coreNLP1">>)
    /\ ret # NoError

\* the argument list a is laid out as: the extra arguments; "-cp" and the
\* class path (when withCp); the class; "-annotators" and the comma-joined
\* stage names (exactly when there are stages); then the eight fixed
\* arguments naming the input file written and the directory created
ArgumentOrder(a, withCp, written, dir) ==
    LET n == SliceLen(client.Args)
        p == IF withCp THEN 2 ELSE 0
        q == IF SliceLen(client.Annotators) > 0 THEN 2 ELSE 0
        f == n + p + 1 + q
    IN /\ Len(a) = f + 8
       /\ SubSeq(a, 1, n) = client.Args.elems
       /\ withCp => (a[n + 1] = <<"-cp">> /\ a[n + 2] = client.ClassPath)
       /\ a[n + p + 1] = client.Class
       /\ q = 2 => /\ a[n + p + 2] = <<"-annotators">>
                   /\ a[n + p + 3] = Join(client.Annotators.elems, ",")
       /\ a[f + 1] = <<"-file">>
       /\ a[f + 2] = written
       /\ a[f + 3] = <<"--outputDirectory">>
       /\ a[f + 4] = dir
       /\ a[f + 5] = <<"-outputFormat">>
       /\ a[f + 6] = <<"serialized">>
       /\ a[f + 7] = <<"-outputSerializer">>
       /\ a[f + 8] = <<"edu.stanford.nlp.pipeline.ProtobufAnnotationSerializer">>

\* the argument list of every subprocess of the last call is laid out so
ArgumentsInOrder(withCp) ==
    (cliPc = "returned" /\ client.backend = "Cmd") =>
        \A i \in Events("exec.Cmd.Run") :
            /\ effects[1].op = "os.MkdirTemp"
            /\ effects[2].op = "os.WriteFile"
            /\ effects[i].name = client.javaCmd
            /\ ArgumentOrder(effects[i].args, withCp, effects[2].path,
                             effects[1].dir)

\* C14 as stated: the argument list is the extra arguments, "-cp" and the
\* class path, the class, "-annotators" with the comma-joined stage names if
\* and only if the stage list is non-empty, then "-file" <input path>,
\* "--outputDirectory" <temp dir>, "-outputFormat" "serialized",
\* "-outputSerializer" <serializer class>, for every Cmd configuration.
C14_ArgumentOrder == ArgumentsInOrder(TRUE)

\* C14 as amended: the same, with "-cp" and the class path present if and
\* only if the class path is not the empty string.
C14_ArgumentOrderAmended == ArgumentsInOrder(client.ClassPath # <<>>)

\* a subprocess was run for a client with an empty class path, one extra
\* argument and two stages
C14_Witness ==
    /\ cliPc = "returned"
    /\ client.backend = "Cmd"
    /\ client.ClassPath = <<>>
    /\ client.Args.elems = << <<"x">> >>
    /\ client.Annotators.elems = << <<"tokenize">>, <<"tokenize">> >>
    /\ Len(effects) >= 3
    /\ effects[3].op = "exec.Cmd.Run"
    /\ effects[3].args[1] = <<"x">>
    /\ effects[3].args[2] = client.Class
    /\ effects[3].args[4] = <<"tokenize", ",", "tokenize">>

\* the percent-encoded payload of request URL u of a client with base URL
\* base: what follows "?properties="
Payload(u, base) == SubSeq(u, Len(base) + 2, Len(u))

\* the payload has an "annotators" field
HasStageField(pl) == \E k \in 1..Len(pl) : pl[k] = EscapePiece("\"annotators\":\"")

\* the payload ends in the outputFormat and serializer fields
HasFixedFields(pl) == pl # <<>> /\ pl[Len(pl)] = EscapePiece(FixedProperties)

\* C15: the payload HttpClient.RunText builds has the "annotators" field,
\* with the comma-joined stage names, when at least one stage is configured,
\* and has no such field when the stage list is nil or has no entries; the
\* outputFormat and serializer fields are always present.
C15_StageFieldOmitted ==
    (cliPc = "returned" /\ client.backend = "HttpClient") =>
        \A i \in Events("http.Client.Do") :
            LET pl == Payload(effects[i].url, client.URL) IN
            /\ HasFixedFields(pl)
            /\ IF SliceLen(client.Annotators) > 0
               THEN pl = QueryEscape(<<"{", "\"annotators\":\"">>
                                      \o Join(client.Annotators.elems, ",")
                                      \o <<"\",", FixedProperties>>)
               ELSE ~HasStageField(pl)

\* C16: every request HttpClient.RunText sends is a POST to the stored base
\* URL followed by "?properties=" and the percent-encoded payload, its body
\* is the input text, and it carries the header Content-Type: text/plain.
C16_Request ==
    (cliPc = "returned" /\ client.backend = "HttpClient") =>
        \A i \in Events("http.Client.Do") :
            /\ effects[i].method = "POST"
            /\ SubSeq(effects[i].url, 1, Len(client.URL) + 1)
                   = client.URL \o <<"?properties=">>
            /\ HasFixedFields(Payload(effects[i].url, client.URL))
            /\ \A k \in 1..Len(Payload(effects[i].url, client.URL)) :
                   Payload(effects[i].url, client.URL)[k] \notin {"{", "\"", ","}
            /\ effects[i].body = text
            /\ effects[i].header = <<"Content-Type: text/plain">>

\* the structured errors of the package that stand for an underlying failure
StructuredErrors ==
    {"*client.ServerError", "*client.CommandError", "*client.ParseError"}

\* C19: a structured error returned for an underlying failure (of the HTTP
\* exchange, of the subprocess, of the decode step) has that failure as its
\* cause: errors.Unwrap gives the original error value.
C19_CausePreserved ==
    (cliPc = "returned" /\ ret.type \in StructuredErrors) =>
        /\ \A i \in Events("http.Client.Do") :
               effects[i].err # NoError => Unwrap(ret) = effects[i].err
        /\ \A i \in Events("exec.Cmd.Run") :
               effects[i].err # NoError => Unwrap(ret) = effects[i].err
        /\ ret.type = "*client.ParseError" => Unwrap(ret) # NoError

\* the client's stage list has an empty or white-space-only entry
InvalidStageList ==
    \E i \in 1..SliceLen(client.Annotators) : Blank(client.Annotators.elems[i])

\* C22: on a client whose stage list has an empty or white-space-only entry,
\* RunText of either backend (on a non-empty text and a non-nil message)
\* fails with a configuration error and performs no external action.
C22_InvalidStagesFailFast ==
    (cliPc = "returned" /\ InvalidStageList /\ text # <<>> /\ ~msg.isNil) =>
        /\ ~panicked
        /\ \/ ret.type = "*client.AnnotatorError"
           \/ ErrorsIs(ret, ErrNoAnnotators)
        /\ effects = <<>>

\* the subprocess of event ev was ended by the cancellation of the context
Cancelled(ev) ==
    /\ ev.started
    /\ ev.err # NoError
    /\ ev.err.ptr = "context.Canceled" \/ ev.err.msg = "signal: killed"

\* C23: when the context is cancelled while the subprocess is running (the
\* run, which waits for the killed process, reports the kill or the
\* context's error), Cmd.RunText returns an error, reads no output artifact,
\* does not invoke the decoder, and leaves the caller's message unmodified.
C23_Cancellation ==
    (cliPc = "returned" /\ client.backend = "Cmd") =>
        \A i \in Events("exec.Cmd.Run") :
            Cancelled(effects[i]) =>
                /\ ~panicked
                /\ ret # NoError
                /\ Events("os.ReadFile") = {}
                /\ Events("proto.Unmarshal") = {}
                /\ doc = msg
                /\ \A j \in (i + 1)..Len(effects) :
                       effects[j].op = "os.RemoveAll"

\* the subprocess was killed for a cancelled context, and the call returned
\* an error that wraps the failure of the run
C23_Witness ==
    /\ cliPc = "returned"
    /\ client.src = "cmd.go"
    /\ Len(effects) = 4
    /\ effects[3].op = "exec.Cmd.Run"
    /\ effects[3].err.msg = "signal: killed"
    /\ ret.type = "*client.CommandError"
    /\ doc = EmptyDoc

\* the protocol steps of a RunText call, by their place in the order; the
\* cleanup actions (os.RemoveAll, Body.Close) are not steps
StepRank(op) ==
    CASE op = "os.MkdirTemp" -> 1
      [] op = "os.WriteFile" -> 2
      [] op = "exec.Cmd.Run" -> 3
      [] op = "http.Client.Do" -> 3
      [] op = "os.ReadFile" -> 4
      [] op = "ReadAll" -> 4
      [] op = "proto.Unmarshal" -> 5
      [] OTHER -> 0

Steps == {i \in 1..Len(effects) : StepRank(effects[i].op) > 0}

\* the step of event ev reported a failure
StepFailed(ev) ==
    CASE ev.op \in {"os.MkdirTemp", "os.WriteFile", "os.ReadFile"} -> ~ev.ok
      [] ev.op = "exec.Cmd.Run" -> ev.err # NoError
      [] ev.op = "http.Client.Do" ->
             ev.err # NoError \/ ev.status < 200 \/ ev.status >= 300
      [] OTHER -> FALSE

\* C24: in one RunText call the steps happen in the order of the protocol and
\* at most once each (so never a second subprocess or request); a step that
\* reports a failure ends the call with an error and no later step runs; a
\* call returns success only after the decode step, and the decode step's
\* error is the call's.
C24_StepsInOrder ==
    cliPc = "returned" =>
        /\ \A i, j \in Steps :
               i < j => StepRank(effects[i].op) < StepRank(effects[j].op)
        /\ \A i \in Steps :
               StepFailed(effects[i]) =>
                   /\ ret # NoError
                   /\ ~panicked
                   /\ \A j \in Steps : j <= i
        /\ (ret = NoError /\ ~panicked) =>
               /\ Events("proto.Unmarshal") # {}
               /\ Cardinality(Steps) = IF client.backend = "Cmd" THEN 5 ELSE 3

\* a request failed without a response: one request was sent and the call
\* returned the error
C24_Witness ==
    /\ cliPc = "returned"
    /\ client.src = "part_005"
    /\ Len(effects) = 1
    /\ effects[1].op = "http.Client.Do"
    /\ effects[1].err # NoError
    /\ ret.type = "*client.ServerError"

\* a subprocess call that ran all its steps
C24_WitnessAllSteps ==
    /\ cliPc = "returned"
    /\ client.backend = "Cmd"
    /\ Cardinality(Steps) = 5
    /\ ret = NoError

\* C29: NewHttpClient, given a server address, returns a client and does not
\* panic, whatever the address (the empty and the one-character address
\* included).
C29_NewHttpClientTotal ==
    (ctor.fn = "NewHttpClient" /\ SliceLen(ctor.args) = 1) =>
        /\ cliPc # "panicked"
        /\ client.backend = "HttpClient"

\* the response of event ev arrived: the exchange returned no error
ResponseReceived(ev) == ev.op = "http.Client.Do" /\ ev.err = NoError

\* C30: when HttpClient.RunText received a response, the response body is
\* closed before the call returns, whatever the status and the outcome of
\* reading and decoding.
C30_BodyClosed ==
    (cliPc = "returned" /\ client.backend = "HttpClient") =>
        \A i \in Events("http.Client.Do") :
            ResponseReceived(effects[i]) =>
                \E j \in Events("Body.Close") : i < j

----------------------------------------------------------------------------
(* Claims about concurrent calls and the configuration (SpecConcurrent) *)

\* what the outside world does for call i when it runs alone
AloneEnv(i) ==
    [dir |-> DirOf(i), mkdirOK |-> TRUE, writeOK |-> TRUE, runErr |-> NoError,
     stdout |-> <<>>, stderr |-> <<>>, readOK |-> TRUE,
     data |-> EngineOutput(CallText(i))]

\* what call i gives when it runs alone
Alone(i) == RunText(conCmd, CallText(i), EmptyDoc, AloneEnv(i))

\* the subprocess of call j is running on the directory of call i
UsesDir(j, i) == At(j, "running") /\ i \in InputDirs(j) \cup OutputDirs(j)

\* C25: of concurrent RunText calls on one Cmd, each runs its subprocess on
\* its own input file and directory, reads only an artifact its own
\* subprocess wrote, removes no directory a subprocess of another call is
\* running on, and returns what it returns when it runs alone.
C25_CallsIsolated ==
    \A i \in CallIds :
        /\ calls[i].started =>
               calls[i].execArgs = CmdArgs(conCmd, InputPath(DirOf(i)), DirOf(i))
        /\ calls[i].readWriter \in {0, i}
        /\ \A j \in CallIds : UsesDir(j, i) => dirs[i].exists
        /\ At(i, "done") =>
               /\ calls[i].ret = Alone(i).ret
               /\ calls[i].doc = Alone(i).doc

\* no call is in progress
Quiescent == \A i \in CallIds : At(i, "start") \/ At(i, "done")

\* C26: after any calls of RunText the extra-argument list of the Cmd and the
\* elements of the caller's slice it was built from are what they were after
\* construction.
C26_ConfigurationUnchanged ==
    Quiescent =>
        /\ conArray = conArray0
        /\ conCmd.Args.elems = SubSeq(conArray, 1, SliceLen(conCmd.Args))

----------------------------------------------------------------------------
(* Claims about Run (SpecRun) *)

\* the last Run call read its file and then did what RunText does on the
\* contents: same error, same document, same external actions
RunAsRunText ==
    /\ effects[1] = EvReadFile(file.path, TRUE)
    /\ ret = direct.ret
    /\ panicked = direct.panicked
    /\ doc = direct.doc
    /\ Tail(effects) = direct.effects

\* C17: for both backends, Run on a readable file has exactly the outcome of
\* RunText on the whole contents of the file, which is ErrEmptyInput for an
\* empty file; when the file cannot be read, Run returns the read error and
\* performs no backend exchange.
C17_RunDelegates ==
    (cliPc = "returned" /\ file # NoFile) =>
        IF file.readable
        THEN /\ RunAsRunText
             /\ file.data = <<>> => (~panicked /\ ErrorsIs(ret, ErrEmptyInput))
        ELSE /\ ret.type = "*fs.PathError"
             /\ ~panicked
             /\ effects = <<EvReadFile(file.path, FALSE)>>
             /\ doc = msg

====
